---- MODULE Spec2Model ----
(***************************************************************************)
(* Model of the agent orchestration kernel of jarvis:                      *)
(*   - agent/loop_.rs : execute_tool_calls, trim_history, run_tool_loop,   *)
(*                      the interactive CLI loop of run                    *)
(*   - tui/mod.rs     : the TUI main loop, handle_key_event and the        *)
(*                      spawned turn task that holds the history mutex     *)
(* Text is modelled as a sequence of tokens, so that a prefix test such as *)
(* starts_with("Error:") is a test of the first token.  Option<T> is a     *)
(* sequence of length 0 (None) or 1 (Some).                                *)
(***************************************************************************)
EXTENDS Integers, Sequences, FiniteSets, TLC

VARIABLES
    mode,                 \* "cli", "one-shot" (agent::run) or "tui" (tui::run)
    max_iterations,       \* config.autonomy.max_tool_iterations
    max_history_turns,    \* config.autonomy.max_history_turns
    max_actions_per_hour, \* SecurityPolicy.max_actions_per_hour
    history,              \* Vec<ChatMessage>
    loop_pc,              \* position of run_tool_loop
    iteration,            \* loop variable of run_tool_loop
    tool_calls,           \* calls of the ToolUse response being executed
    tool_results,         \* `results` of execute_tool_calls
    events,               \* the ToolCall events execute_tool_calls gave the observer
    result,               \* what run_tool_loop returned
    provider_log,         \* chat_with_tools calls of the current turn
    actions,              \* SecurityPolicy: timestamps of accepted actions
    now,                  \* wall clock, in units of HourTicks per hour
    executions,           \* timestamps, within the last hour, of tool.execute calls
    turns,                \* user inputs accepted so far
    tool_use_total,       \* ToolUse responses received so far
    cli_pc,               \* position of the CLI loop of agent::run
    status,               \* App.status
    key_pc,               \* position of the TUI main loop
    task_pc,              \* position of the spawned turn task
    lock,                 \* owner of the history mutex
    agent_rx,             \* events sent on agent_tx, not yet received
    input,                \* App.input
    trim_before,          \* the history a lone trim_history call was given
    reliability,          \* config.reliability: the two channel back-off settings
    daemon_pc,            \* position of daemon::run
    aborted,              \* handle.abort() was called on the spawned tasks
    sup,                  \* per component: position and locals of its supervisor task
    outcomes,             \* per component: how each completed run ended, and the sleep after it
    health,               \* crate::health: the process-wide registry
    writer_pc,            \* position of the state writer task
    blocking_write,       \* the std::fs::write that tokio::fs::write runs on the blocking pool
    state_file,           \* daemon_state.json
    pid_file,             \* daemon.pid
    doctor_result,        \* what doctor::run made of the state file
    unix,                 \* the build: cfg(unix) or cfg(not(unix))
    kill_ok,              \* the PIDs for which libc::kill(pid, 0) returns 0
    is_running,           \* what a call of is_daemon_running returned
    stop,                 \* position and locals of a call of stop_daemon
    cron_jobs,            \* the rows of table cron_jobs, in insertion order
    utc_now,              \* Utc::now(), in half seconds
    cron_call,            \* the last call into cron/mod.rs and what it returned
    normalized,           \* an expression and what normalize_expression made of it
    exchange,             \* one call of the OpenAI-compatible provider: the server's
                          \* answers, the requests made and what the call returned
    endpoint,             \* a configured URL, the provider built from it and its
                          \* chat_completions_url
    wire_arguments,       \* the `arguments` of a wire tool call and the String
                          \* deserialize_arguments made of it
    chat_json,            \* a ChatMessage, its serde_json::to_string and what
                          \* serde_json::from_str made of that
    worker,               \* position and locals of run_heartbeat_worker, and the clock
    instances,            \* per PID: position of a daemon process started on this config
    scheduler             \* the jobs the scheduler read as due and has not rescheduled yet

vars == <<mode, max_iterations, max_history_turns, max_actions_per_hour,
          history, loop_pc, iteration, tool_calls, tool_results, events, result,
          provider_log, actions, now, executions, turns, tool_use_total,
          cli_pc, status, key_pc, task_pc, lock, agent_rx, input, trim_before,
          reliability, daemon_pc, aborted, sup, outcomes, health, writer_pc,
          blocking_write, state_file, pid_file, doctor_result,
          unix, kill_ok, is_running, stop, cron_jobs, utc_now, cron_call,
          normalized, exchange, endpoint, wire_arguments, chat_json, worker, instances, scheduler>>

config_vars == <<mode, max_iterations, max_history_turns, max_actions_per_hour>>
loop_vars == <<loop_pc, iteration, tool_calls, tool_results, events, result, provider_log>>
security_vars == <<actions, executions>>
tui_vars == <<status, key_pc, task_pc, lock, agent_rx, input>>
(* State that no step of an agent session touches *)
supervisor_vars == <<sup, outcomes, health>>
file_vars == <<writer_pc, blocking_write, state_file, pid_file, doctor_result>>
probe_vars == <<unix, kill_ok, is_running>>
daemon_vars == <<reliability, daemon_pc, aborted, supervisor_vars, file_vars, probe_vars>>
session_vars == <<mode, max_iterations, max_history_turns, max_actions_per_hour,
                  history, loop_pc, iteration, tool_calls, tool_results, events, result,
                  provider_log, actions, now, executions, turns, tool_use_total,
                  cli_pc, status, key_pc, task_pc, lock, agent_rx, input>>
(* State of the one-shot commands and of the library calls *)
cron_vars == <<cron_jobs, utc_now, cron_call>>
(* Arguments and results of the functions that are called on their own *)
serde_vars == <<chat_json>>
heartbeat_vars == <<worker>>
race_vars == <<instances, scheduler>>
late_vars == <<serde_vars, heartbeat_vars, race_vars>>
pure_vars == <<normalized, exchange, endpoint, wire_arguments, late_vars>>
library_vars == <<cron_vars, pure_vars>>
command_vars == <<stop, library_vars>>
(* Processes that share the files of one config directory *)
InstancePids == {7, 70, 77}
NoInstances == [p \in InstancePids |-> "off"]
NoScheduler == <<>>

(* command_vars without the heartbeat worker *)
other_commands_but_races ==
    <<stop, cron_vars, normalized, exchange, endpoint, wire_arguments, serde_vars>>
other_commands == <<other_commands_but_races, race_vars>>
outside_session == <<trim_before, daemon_vars, command_vars>>

----------------------------------------------------------------------------
(* Bounds of the model *)

MaxIterations == 1      \* max_iterations ranges over 0..MaxIterations
MaxHistoryTurns == 1    \* max_history_turns ranges over 0..MaxHistoryTurns
MaxActions == 1         \* max_actions_per_hour ranges over 0..MaxActions
MaxCalls == 2           \* calls in one ToolUse response
MaxTurns == 3           \* user inputs in one session
MaxToolUse == 1         \* ToolUse responses with tools enabled in one session
MaxTime == 2            \* clock ticks in one session
MaxHistoryLen == 6      \* a caller of SpecOps starts no loop on a longer history
MaxTrimLen == 4         \* messages after the System message in a history given to trim_history
MaxTrimTurns == 3       \* max_turns given to trim_history ranges over 0..MaxTrimTurns
MaxBackoff == 3         \* the back-off settings range over 0..MaxBackoff and u64_MAX
MaxRuns == 3            \* completed component runs in one daemon
MaxAdds == 1            \* at most MaxAdds jobs are added while jobs are fired
MaxJobs == 2            \* at most MaxJobs jobs are added while jobs are listed
MaxClock == 2           \* utc_now ranges over the half seconds of 0..MaxClock seconds
MaxExprLen == 15        \* expressions given to normalize_expression: up to MaxExprLen characters
MaxWireCalls == 2       \* a response message carries up to MaxWireCalls tool calls
MaxUrlLen == 5          \* a configured base URL has up to MaxUrlLen pieces
MaxStringLen == 2       \* a JSON string of the arguments has up to MaxStringLen characters
MaxInputLen == 1        \* keys typed into the input buffer of the TUI before Enter
MaxTasks == 2           \* tasks in the list collect_tasks returns
MaxTicks == 2           \* ticks of one run of the heartbeat worker
MaxMinutes == 6         \* the clock of the heartbeat worker ranges over 0..MaxMinutes
MaxPidLen == 3          \* characters in daemon.pid

(* The floor of the heartbeat interval, in minutes *)
IntervalFloor == 5
HeartbeatIntervals == {0, 6}

(* One hour, in clock ticks *)
HourTicks == 2

----------------------------------------------------------------------------
(* Option and text *)

None == <<>>
Some(x) == <<x>>
IsSome(o) == Len(o) = 1
UnwrapOr(o, d) == IF IsSome(o) THEN o[1] ELSE d

StartsWith(text, token) == Len(text) > 0 /\ text[1] = token

IsPrefix(s, t) == Len(s) <= Len(t) /\ SubSeq(t, 1, Len(s)) = s
Last(s) == s[Len(s)]

(* Vec::push *)
push(v, x) == Append(v, x)

Whitespace == {" ", "\n"}

(* str::trim *)
RECURSIVE trim_start(_)
trim_start(s) == IF s # <<>> /\ s[1] \in Whitespace THEN trim_start(Tail(s)) ELSE s
RECURSIVE trim_end(_)
trim_end(s) ==
    IF s # <<>> /\ s[Len(s)] \in Whitespace THEN trim_end(SubSeq(s, 1, Len(s) - 1)) ELSE s
trim(s) == trim_end(trim_start(s))

----------------------------------------------------------------------------
(* providers/traits.rs: ChatMessage, ToolCall, ChatResponse *)

System(c) ==
    [role |-> "System", content |-> Some(c), tool_calls |-> None, tool_call_id |-> ""]
User(c) ==
    [role |-> "User", content |-> Some(c), tool_calls |-> None, tool_call_id |-> ""]
Assistant(c, tcs) ==
    [role |-> "Assistant", content |-> c, tool_calls |-> tcs, tool_call_id |-> ""]
Tool(id, c) ==
    [role |-> "Tool", content |-> Some(c), tool_calls |-> None, tool_call_id |-> id]

ToolCall(id, name, arguments) == [id |-> id, name |-> name, arguments |-> arguments]

Text(t) == [kind |-> "Text", text |-> Some(t), tool_calls |-> <<>>]
ToolUse(tcs, t) == [kind |-> "ToolUse", text |-> t, tool_calls |-> tcs]
ProviderError == [kind |-> "Err", text |-> None, tool_calls |-> <<>>]

SystemPrompt == <<"system">>
UserText(n) == <<"m", ToString(n)>>
FinalPrompt == <<"max iterations reached, answer now">>
FallbackText == <<"no final answer within the iteration limit">>

----------------------------------------------------------------------------
(* The tool registry of the session and the inputs a provider can send *)

RegisteredTools == {"echo"}

(* What the user of the TUI types: a message or the /clear command *)
TypedKeys == {"m", "/clear"}

(* serde_json::from_str(&tc.function.arguments) succeeds *)
ParsesAsJson(arguments) == arguments = "{}"

(* Two good calls that differ in their id, one with arguments that do not *)
(* parse, one that names no registered tool                               *)
AllToolCalls ==
    { ToolCall("call_1", "echo", "{}"),
      ToolCall("call_2", "echo", "not valid json"),
      ToolCall("call_3", "nonexistent_tool", "{}") }

RECURSIVE SeqsUpTo(_, _)
SeqsUpTo(S, n) ==
    IF n = 0 THEN {<<>>}
    ELSE LET shorter == SeqsUpTo(S, n - 1)
         IN shorter \cup {Append(q, x) : q \in {r \in shorter : Len(r) = n - 1}, x \in S}

Preambles == {None, Some(<<"preamble">>)}

ChatResponses ==
    {Text(<<"Hello!">>), ProviderError}
    \cup {ToolUse(tcs, t) : tcs \in SeqsUpTo(AllToolCalls, MaxCalls), t \in Preambles}

(* What tool.execute(args).await can yield: Ok(ToolResult) or Err(e) *)
ToolOutcomes ==
    { [ok |-> TRUE, success |-> TRUE, output |-> <<"output">>, error |-> None],
      [ok |-> TRUE, success |-> FALSE, output |-> <<"output">>, error |-> Some(<<"failed">>)],
      [ok |-> TRUE, success |-> FALSE, output |-> <<"output">>, error |-> None],
      [ok |-> FALSE, success |-> FALSE, output |-> <<"crashed">>, error |-> None] }

----------------------------------------------------------------------------
(* security: SecurityPolicy::record_action, a rolling window of one hour *)

RecentActions(acts, t) == SelectSeq(acts, LAMBDA a : a > t - HourTicks)

record_action_allowed(acts, t, max) == Len(RecentActions(acts, t)) < max

record_action_tracker(acts, t, max) ==
    IF record_action_allowed(acts, t, max)
    THEN Append(RecentActions(acts, t), t)
    ELSE RecentActions(acts, t)

----------------------------------------------------------------------------
(* agent/loop_.rs: trim_history *)

user_count(h) == Cardinality({i \in 1..Len(h) : h[i].role = "User"})

(* The scan `for (i, msg) in history.iter().enumerate().skip(1)`; i is the *)
(* index as the code counts it, from 0.                                    *)
RECURSIVE cut_index_early(_, _, _, _)
cut_index_early(h, i, user_seen, skip) ==
    IF i >= Len(h) THEN 1
    ELSE IF h[i + 1].role = "User"
         THEN IF user_seen + 1 >= skip THEN i
              ELSE cut_index_early(h, i + 1, user_seen + 1, skip)
         ELSE cut_index_early(h, i + 1, user_seen, skip)

RECURSIVE cut_index(_, _, _, _)
cut_index(h, i, user_seen, skip) ==
    IF i >= Len(h) THEN 1
    ELSE IF h[i + 1].role = "User"
         THEN IF user_seen + 1 > skip THEN i
              ELSE cut_index(h, i + 1, user_seen + 1, skip)
         ELSE cut_index(h, i + 1, user_seen, skip)

(* history.drain(1..cut): keeps index 0 and everything from index cut on *)
drain_from_zero(h, cut) == SubSeq(h, cut + 1, Len(h))
drain(h, cut) == SubSeq(h, 1, 1) \o SubSeq(h, cut + 1, Len(h))

trim_history_by_messages(h, max_turns) ==
    IF max_turns = 0 \/ Len(h) - 1 <= 2 * max_turns THEN h
    ELSE SubSeq(h, 1, 1) \o SubSeq(h, Len(h) - 2 * max_turns + 1, Len(h))

trim_history_strict(h, max_turns) ==
    IF max_turns = 0 THEN h
    ELSE IF user_count(h) < max_turns THEN h
    ELSE drain(h, cut_index(h, 1, 0, user_count(h) - max_turns))

trim_history(h, max_turns) ==
    IF max_turns = 0 THEN h
    ELSE IF user_count(h) <= max_turns THEN h
    ELSE drain(h, cut_index(h, 1, 0, user_count(h) - max_turns))

----------------------------------------------------------------------------
(* agent/loop_.rs: execute_tool_calls, one pass through `for tc in tool_calls` *)

(* format!("Error: {}", result.error.unwrap_or(result.output)) and the rest *)
tool_result_unmarked(outcome) ==
    IF outcome.ok /\ ~outcome.success THEN UnwrapOr(outcome.error, outcome.output)
    ELSE outcome.output
tool_result(outcome) ==
    IF outcome.ok
    THEN IF outcome.success THEN outcome.output
         ELSE <<"Error:">> \o UnwrapOr(outcome.error, outcome.output)
    ELSE <<"Error:">> \o outcome.output

UnknownToolText(name) == <<"Error:", "unknown tool", name>>
RateLimitText == <<"rate limit exceeded">>
ParseErrorText == <<"arguments failed to parse">>

(* results.push(ChatMessage::Tool { .. }) *)
results_push_front(results, msg) == <<msg>> \o results
results_push(results, msg) == Append(results, msg)

(* tools.iter().find(|t| t.name() == tool_name) is Some *)
find_tool_any(name) == TRUE
find_tool(name) == name \in RegisteredTools

(* `if !security.record_action()` takes the rate-limit arm *)
rate_limit_ignored(acts, t, max) == FALSE
rate_limit_denied(acts, t, max) == ~record_action_allowed(acts, t, max)

(* `security.record_action()` comes before serde_json::from_str in the     *)
(* loop body: a call to a registered tool is counted whatever its          *)
(* arguments; the variant parses first and counts the calls that parse     *)
counted_if_parsed(arguments) == ParsesAsJson(arguments)
counted(arguments) == TRUE

(* let success = !tool_result.starts_with("Error:"); the variant reports   *)
(* every executed call as a success                                         *)
tool_success_always(outcome_text) == TRUE
tool_success(outcome_text) == ~StartsWith(outcome_text, "Error:")

(* observer.record_event(&ObserverEvent::ToolCall { tool, duration, success }) *)
record_event(log, tool, success) == Append(log, [tool |-> tool, success |-> success])

execute_tool_call(outcome) ==
    LET tc == tool_calls[Len(tool_results) + 1] IN
    /\ loop_pc = "tools"
    /\ Len(tool_results) < Len(tool_calls)
    /\ IF ~find_tool(tc.name)
       THEN /\ tool_results' = results_push(tool_results, Tool(tc.id, UnknownToolText(tc.name)))
            /\ UNCHANGED <<actions, executions, events>>
       ELSE IF ~counted(tc.arguments)
       THEN /\ tool_results' = results_push(tool_results, Tool(tc.id, ParseErrorText))
            /\ UNCHANGED <<actions, executions, events>>
       ELSE /\ actions' = record_action_tracker(actions, now, max_actions_per_hour)
            /\ IF rate_limit_denied(actions, now, max_actions_per_hour)
               THEN /\ tool_results' = results_push(tool_results, Tool(tc.id, RateLimitText))
                    /\ UNCHANGED <<executions, events>>
               ELSE IF ~ParsesAsJson(tc.arguments)
               THEN /\ tool_results' = results_push(tool_results, Tool(tc.id, ParseErrorText))
                    /\ UNCHANGED <<executions, events>>
               ELSE /\ executions' = Append(RecentActions(executions, now), now)
                    /\ tool_results' = results_push(tool_results, Tool(tc.id, tool_result(outcome)))
                    /\ events' = record_event(events, tc.name, tool_success(tool_result(outcome)))
    /\ UNCHANGED <<config_vars, outside_session, history, loop_pc, iteration, tool_calls, result,
                   provider_log, now, turns, tool_use_total, cli_pc, tui_vars>>

----------------------------------------------------------------------------
(* agent/loop_.rs: run_tool_loop *)

(* `for iteration in 0..max_iterations` has another pass to make *)
in_range_inclusive(i, max) == i <= max
in_range(i, max) == i < max

(* The Text arms: push Assistant{content: Some(text), tool_calls: None} *)
push_text_dropped(h, text) == h
push_text(h, text) == push(h, Assistant(Some(text), None))

(* text.unwrap_or_else(|| fallback) of the final ToolUse arm *)
final_text_fallback_only(text) == FallbackText
final_text(text) == UnwrapOr(text, FallbackText)

LogEntry(resp, tools_enabled) ==
    [kind |-> resp.kind, text |-> resp.text, tool_calls |-> resp.tool_calls,
     tools_enabled |-> tools_enabled]

Returned(ok, text) == [kind |-> IF ok THEN "Ok" ELSE "Err", text |-> text]
NoResult == [kind |-> "none", text |-> <<>>]

(* `.await?` on an Err of the provider: run_tool_loop returns; the variant *)
(* goes on with the loop                                                    *)
after_provider_error_retry == "chat"
after_provider_error == "returned"

(* One pass of `for iteration in 0..max_iterations` up to the match arms *)
chat_with_tools(resp) ==
    /\ loop_pc = "chat"
    /\ in_range(iteration, max_iterations)
    /\ resp.kind = "ToolUse" => tool_use_total < MaxToolUse
    /\ provider_log' = Append(provider_log, LogEntry(resp, TRUE))
    /\ CASE resp.kind = "Err" ->
              /\ result' = Returned(FALSE, <<"provider error">>)
              /\ loop_pc' = after_provider_error
              /\ UNCHANGED <<history, tool_calls, tool_results, events, tool_use_total>>
         [] resp.kind = "Text" ->
              /\ history' = push_text(history, resp.text[1])
              /\ result' = Returned(TRUE, resp.text[1])
              /\ loop_pc' = "returned"
              /\ UNCHANGED <<tool_calls, tool_results, events, tool_use_total>>
         [] resp.kind = "ToolUse" ->
              /\ history' = push(history, Assistant(resp.text, Some(resp.tool_calls)))
              /\ tool_calls' = resp.tool_calls
              /\ tool_results' = <<>>
              /\ events' = <<>>
              /\ tool_use_total' = tool_use_total + 1
              /\ loop_pc' = "tools"
              /\ UNCHANGED result
    /\ UNCHANGED <<config_vars, outside_session, iteration, security_vars, now, turns, cli_pc, tui_vars>>

(* history.extend(tool_results) and the end of the loop body *)
extend_history ==
    /\ loop_pc = "tools"
    /\ Len(tool_results) = Len(tool_calls)
    /\ history' = history \o tool_results
    /\ iteration' = iteration + 1
    /\ tool_calls' = <<>>
    /\ tool_results' = <<>>
    /\ events' = <<>>
    /\ loop_pc' = "chat"
    /\ UNCHANGED <<config_vars, outside_session, result, provider_log, security_vars, now, turns,
                   tool_use_total, cli_pc, tui_vars>>

(* The loop ran out: push the synthetic User message *)
max_iterations_reached ==
    /\ loop_pc = "chat"
    /\ ~in_range(iteration, max_iterations)
    /\ history' = push(history, User(FinalPrompt))
    /\ loop_pc' = "final"
    /\ UNCHANGED <<config_vars, outside_session, iteration, tool_calls, tool_results, events, result, provider_log,
                   security_vars, now, turns, tool_use_total, cli_pc, tui_vars>>

(* provider.chat_with_tools(history, &[], ..) and the match on final_response *)
final_chat_with_tools(resp) ==
    /\ loop_pc = "final"
    /\ provider_log' = Append(provider_log, LogEntry(resp, FALSE))
    /\ loop_pc' = IF resp.kind = "Err" THEN after_provider_error ELSE "returned"
    /\ CASE resp.kind = "Err" ->
              /\ result' = Returned(FALSE, <<"provider error">>)
              /\ UNCHANGED <<history, tool_use_total>>
         [] resp.kind = "Text" ->
              /\ history' = push_text(history, resp.text[1])
              /\ result' = Returned(TRUE, resp.text[1])
              /\ UNCHANGED tool_use_total
         [] resp.kind = "ToolUse" ->
              /\ history' = push_text(history, final_text(resp.text))
              /\ result' = Returned(TRUE, final_text(resp.text))
              /\ UNCHANGED tool_use_total
    /\ UNCHANGED <<config_vars, outside_session, iteration, tool_calls, tool_results, events, security_vars, now,
                   turns, cli_pc, tui_vars>>

(* What a caller sets up before run_tool_loop: trim, push the User message *)
start_turn ==
    /\ history' = push(trim_history(history, max_history_turns), User(UserText(turns + 1)))
    /\ turns' = turns + 1
    /\ loop_pc' = "chat"
    /\ iteration' = 0
    /\ tool_calls' = <<>>
    /\ tool_results' = <<>>
    /\ events' = <<>>
    /\ result' = NoResult
    /\ provider_log' = <<>>

----------------------------------------------------------------------------
(* agent/loop_.rs: the interactive loop of run, `while let Some(msg) = rx.recv()` *)

cli_recv ==
    /\ mode = "cli"
    /\ cli_pc = "recv"
    /\ turns < MaxTurns
    /\ start_turn
    /\ cli_pc' = "turn"
    /\ UNCHANGED <<config_vars, outside_session, security_vars, now, tool_use_total, tui_vars>>

(* run_tool_loop(..).await? : an error leaves run, a text goes back to recv *)
cli_turn_end ==
    /\ mode = "cli"
    /\ cli_pc = "turn"
    /\ loop_pc = "returned"
    /\ cli_pc' = IF result.kind = "Ok" THEN "recv" ELSE "exited"
    /\ loop_pc' = "idle"
    /\ UNCHANGED <<config_vars, outside_session, history, iteration, tool_calls, tool_results, events, result,
                   provider_log, security_vars, now, turns, tool_use_total, tui_vars>>

(* agent/loop_.rs: the single-message mode of run: a fresh history of the *)
(* System and the User message, one run_tool_loop, then run ends           *)
one_shot_start ==
    /\ mode = "one-shot"
    /\ cli_pc = "recv"
    /\ history' = <<System(SystemPrompt), User(UserText(turns + 1))>>
    /\ turns' = turns + 1
    /\ loop_pc' = "chat"
    /\ iteration' = 0
    /\ tool_calls' = <<>>
    /\ tool_results' = <<>>
    /\ events' = <<>>
    /\ result' = NoResult
    /\ provider_log' = <<>>
    /\ cli_pc' = "turn"
    /\ UNCHANGED <<config_vars, outside_session, security_vars, now, tool_use_total, tui_vars>>

one_shot_end ==
    /\ mode = "one-shot"
    /\ cli_pc = "turn"
    /\ loop_pc = "returned"
    /\ cli_pc' = "exited"
    /\ loop_pc' = "idle"
    /\ UNCHANGED <<config_vars, outside_session, history, iteration, tool_calls, tool_results, events, result,
                   provider_log, security_vars, now, turns, tool_use_total, tui_vars>>

----------------------------------------------------------------------------
(* tui/mod.rs: the main loop of run, handle_key_event, the spawned turn task *)

(* history.lock().await returns once nobody holds the mutex *)
history_lock_ignored == TRUE
history_lock_acquired == lock = "free"

(* App::submit_input: the trimmed buffer; the buffer is cleared *)
submit_input(buffer) == [text |-> trim(buffer), input |-> <<>>]

(* App::handle_slash_command, for the commands the model types *)
handle_slash_command(text) == IF text = <<"/clear">> THEN "Clear" ELSE "None"

(* The Enter arm of handle_key_event up to what it does with the text: the *)
(* variant does not look at the status                                      *)
enter_arm_unguarded(st, buffer) ==
    LET submitted == submit_input(buffer)
    IN IF submitted.text = <<>>
       THEN [outcome |-> "empty", status |-> st, input |-> submitted.input]
       ELSE IF handle_slash_command(submitted.text) = "Clear"
       THEN [outcome |-> "clear", status |-> st, input |-> submitted.input]
       ELSE [outcome |-> "spawn", status |-> "Waiting", input |-> submitted.input]
enter_arm(st, buffer) ==
    IF st = "Waiting" THEN [outcome |-> "ignored", status |-> st, input |-> buffer]
    ELSE enter_arm_unguarded(st, buffer)

(* KeyCode::Char(c): app.insert_char(c), the cursor at the end *)
key_char(c) ==
    /\ mode = "tui"
    /\ key_pc = "select"
    /\ turns < MaxTurns
    /\ Len(input) < MaxInputLen
    /\ input' = Append(input, c)
    /\ UNCHANGED <<config_vars, outside_session, history, loop_vars, security_vars, now, turns,
                   tool_use_total, cli_pc, status, key_pc, task_pc, lock, agent_rx>>

(* Enter with a regular message: status = Waiting, tokio::spawn of the turn. *)
(* `typed` are keys of the Char arm handled right before this Enter with no  *)
(* other event in between; the Char arm touches nothing but the buffer and   *)
(* only the Enter arm reads the buffer.                                      *)
key_enter_message(typed) ==
    /\ mode = "tui"
    /\ key_pc = "select"
    /\ enter_arm(status, input \o typed).outcome = "spawn"
    /\ turns < MaxTurns
    /\ status' = enter_arm(status, input \o typed).status
    /\ input' = enter_arm(status, input \o typed).input
    /\ task_pc' = "spawned"
    /\ UNCHANGED <<config_vars, outside_session, history, loop_vars, security_vars, now, turns,
                   tool_use_total, cli_pc, key_pc, lock, agent_rx>>

(* Enter with /clear or /cls: the handler goes on to history.lock().await *)
key_enter_clear(typed) ==
    /\ mode = "tui"
    /\ key_pc = "select"
    /\ enter_arm(status, input \o typed).outcome = "clear"
    /\ input' = enter_arm(status, input \o typed).input
    /\ key_pc' = "clear"
    /\ UNCHANGED <<config_vars, outside_session, history, loop_vars, security_vars, now, turns,
                   tool_use_total, cli_pc, status, task_pc, lock, agent_rx>>

(* Ctrl+L: the handler goes on to history.lock().await *)
key_ctrl_l ==
    /\ mode = "tui"
    /\ key_pc = "select"
    /\ key_pc' = "clear"
    /\ UNCHANGED <<config_vars, outside_session, history, loop_vars, security_vars, now, turns,
                   tool_use_total, cli_pc, status, task_pc, lock, agent_rx, input>>

(* hist.clear(); hist.push(System); the guard is dropped at the end of the arm *)
clear_history ==
    /\ key_pc = "clear"
    /\ history_lock_acquired
    /\ history' = <<System(SystemPrompt)>>
    /\ key_pc' = "select"
    /\ UNCHANGED <<config_vars, outside_session, loop_vars, security_vars, now, turns, tool_use_total,
                   cli_pc, status, task_pc, lock, agent_rx, input>>

(* The spawned task: lock, trim_history, push User, enter run_tool_loop *)
task_start ==
    /\ task_pc = "spawned"
    /\ history_lock_acquired
    /\ lock' = "task"
    /\ start_turn
    /\ task_pc' = "running"
    /\ UNCHANGED <<config_vars, outside_session, security_vars, now, tool_use_total, cli_pc, status,
                   key_pc, agent_rx, input>>

(* drop(hist) and tx.send(AgentResponse | AgentError); the task ends *)
task_finish ==
    /\ task_pc = "running"
    /\ loop_pc = "returned"
    /\ lock' = "free"
    /\ agent_rx' = Append(agent_rx, IF result.kind = "Ok" THEN "AgentResponse" ELSE "AgentError")
    /\ task_pc' = "none"
    /\ loop_pc' = "idle"
    /\ UNCHANGED <<config_vars, outside_session, history, iteration, tool_calls, tool_results, events, result,
                   provider_log, security_vars, now, turns, tool_use_total, cli_pc,
                   status, key_pc, input>>

(* The agent_rx arm of select!: both events set status back to Idle *)
recv_agent_event ==
    /\ mode = "tui"
    /\ key_pc = "select"
    /\ agent_rx # <<>>
    /\ status' = "Idle"
    /\ agent_rx' = Tail(agent_rx)
    /\ UNCHANGED <<config_vars, outside_session, history, loop_vars, security_vars, now, turns,
                   tool_use_total, cli_pc, key_pc, task_pc, lock, input>>

----------------------------------------------------------------------------
(* Time passes.  The clock is read by record_action only, so its advance is *)
(* taken where a tool call is about to be processed: a tick at any other    *)
(* moment is observed by the program as a tick here.                        *)

Tick ==
    /\ now < MaxTime
    /\ loop_pc = "tools"
    /\ Len(tool_results) < Len(tool_calls)
    /\ now' = now + 1
    /\ UNCHANGED <<config_vars, outside_session, history, loop_vars, security_vars, turns, tool_use_total,
                   cli_pc, tui_vars>>

----------------------------------------------------------------------------
(* daemon/mod.rs: the supervisor of one component *)

(* u64::MAX, scaled down to four bits so that saturating_mul saturates *)
u64_MAX == 15

Components == {"gateway", "heartbeat"}
HealthNames == Components \cup {"daemon"}

Max(a, b) == IF a >= b THEN a ELSE b
Min(a, b) == IF a <= b THEN a ELSE b
saturating_mul(x, k) == IF x * k > u64_MAX THEN u64_MAX ELSE x * k

(* crate::health, as the spec describes the registry: one entry per name *)
NoEntry == [status |-> "none", last_error |-> None, restart_count |-> 0]
mark_component_ok(h, name) ==
    [h EXCEPT ![name] = [@ EXCEPT !.status = "ok", !.last_error = None]]
mark_component_error(h, name, reason) ==
    [h EXCEPT ![name] = [@ EXCEPT !.status = "error", !.last_error = Some(reason)]]
bump_component_restart(h, name) ==
    [h EXCEPT ![name] = [@ EXCEPT !.restart_count = @ + 1]]

Unspawned == [pc |-> "unspawned", initial_backoff_secs |-> 0, backoff |-> 0, max_backoff |-> 0]

(* let mut backoff = initial_backoff_secs.Max(1);                          *)
(* let max_backoff = max_backoff_secs.Max(backoff);                        *)
initial_backoff_unclamped(initial_backoff_secs) == initial_backoff_secs
initial_backoff(initial_backoff_secs) == Max(initial_backoff_secs, 1)

spawn_component_supervisor(initial_backoff_secs, max_backoff_secs) ==
    [pc |-> "spawned",
     initial_backoff_secs |-> initial_backoff_secs,
     backoff |-> initial_backoff(initial_backoff_secs),
     max_backoff |-> Max(max_backoff_secs, initial_backoff(initial_backoff_secs))]

RunsDone == LET RECURSIVE Sum(_)
                Sum(S) == IF S = {} THEN 0
                          ELSE LET c == CHOOSE x \in S : TRUE
                               IN Len(outcomes[c]) + Sum(S \ {c})
            IN Sum(Components)

(* The first poll of the task: the top of `loop`, up to run_component().await *)
supervisor_start(c) ==
    /\ sup[c].pc = "spawned"
    /\ ~aborted
    /\ health' = mark_component_ok(health, c)
    /\ sup' = [sup EXCEPT ![c].pc = "running"]
    /\ UNCHANGED <<session_vars, trim_before, command_vars, probe_vars, reliability, daemon_pc, aborted, outcomes,
                   file_vars>>

(* What the Ok(()) arm leaves in backoff, and what the Err arm leaves *)
backoff_kept(s) == s.backoff
backoff_after_exit(s) == initial_backoff(s.initial_backoff_secs)

(* bump_component_restart(name) *)
restart_not_counted(h, name) == h
restart_counted(h, name) == bump_component_restart(h, name)

(* Both arms fall through to the bump and the sleep *)
pc_after_run_err_ends(res) == IF res = "Err" THEN "cancelled" ELSE "sleeping"
pc_after_run(res) == "sleeping"

(* run_component() returned: the match, the bump, up to sleep(backoff).await *)
run_returned(c, res) ==
    /\ sup[c].pc = "running"
    /\ ~aborted
    /\ RunsDone < MaxRuns
    /\ LET reason == IF res = "Ok" THEN "component exited unexpectedly" ELSE "boom"
           backoff == IF res = "Ok" THEN backoff_after_exit(sup[c]) ELSE sup[c].backoff
       IN /\ health' = restart_counted(mark_component_error(health, c, reason), c)
          /\ sup' = [sup EXCEPT ![c].pc = pc_after_run(res), ![c].backoff = backoff]
          /\ outcomes' = [outcomes EXCEPT ![c] = Append(@, [res |-> res, slept |-> backoff])]
    /\ UNCHANGED <<session_vars, trim_before, other_commands, probe_vars, reliability, daemon_pc,
                   aborted, file_vars>>

(* a component whose run is not followed step by step *)
component_run_returns(c, res) ==
    /\ run_returned(c, res)
    /\ UNCHANGED heartbeat_vars

(* backoff = backoff.saturating_mul(2).Min(max_backoff) *)
double_unbounded(s) == saturating_mul(s.backoff, 2)
double_backoff(s) == Min(saturating_mul(s.backoff, 2), s.max_backoff)

(* The sleep is over: double the back-off, then the top of `loop` again *)
sleep_returns(c) ==
    /\ sup[c].pc = "sleeping"
    /\ ~aborted
    /\ health' = mark_component_ok(health, c)
    /\ sup' = [sup EXCEPT ![c].pc = "running", ![c].backoff = double_backoff(sup[c])]
    /\ UNCHANGED <<session_vars, trim_before, command_vars, probe_vars, reliability, daemon_pc, aborted, outcomes,
                   file_vars>>

(* run_heartbeat_worker: a heartbeat task ended, the worker marks its own entry *)
heartbeat_task(ok) ==
    /\ sup["heartbeat"].pc = "running"
    /\ ~aborted
    /\ health' = IF ok THEN mark_component_ok(health, "heartbeat")
                 ELSE mark_component_error(health, "heartbeat", "task failed")
    /\ UNCHANGED <<session_vars, trim_before, command_vars, probe_vars, reliability, daemon_pc, aborted, sup, outcomes,
                   file_vars>>

(* run_heartbeat_worker, step by step.  The clock counts minutes. *)
NoWorker ==
    [pc |-> "none", interval_minutes |-> 0, clock |-> 0, period |-> 0, deadline |-> 0,
     ticks |-> 0, collected |-> <<>>, pending |-> <<>>, ran |-> <<>>]

(* config.heartbeat.interval_minutes.max(5): the variant takes the setting as it is *)
interval_mins_unclamped(interval_minutes) == interval_minutes
interval_mins(interval_minutes) == Max(interval_minutes, IntervalFloor)

(* The worker starts: the engine, the interval; the first tick is due at once *)
heartbeat_worker_start ==
    /\ sup["heartbeat"].pc = "running"
    /\ ~aborted
    /\ worker.pc = "none"
    /\ worker' = [worker EXCEPT !.pc = "tick",
                                !.period = interval_mins(worker.interval_minutes),
                                !.deadline = worker.clock,
                                !.ticks = 0,
                                !.collected = <<>>, !.pending = <<>>, !.ran = <<>>]
    /\ UNCHANGED <<session_vars, trim_before, other_commands, daemon_vars>>

(* interval.tick().await returns at the deadline or, when that was missed, *)
(* at once; the next deadline is one period after this one                  *)
heartbeat_tick ==
    /\ worker.pc = "tick"
    /\ worker.clock >= worker.deadline
    /\ worker.ticks < MaxTicks
    /\ worker' = [worker EXCEPT !.pc = "collect",
                                !.deadline = worker.deadline + worker.period,
                                !.ticks = worker.ticks + 1]
    /\ UNCHANGED <<session_vars, trim_before, other_commands, daemon_vars>>

(* engine.collect_tasks().await? : an Err ends the worker, and with it     *)
(* run_component; an empty list goes back to the tick                       *)
heartbeat_collect_tasks(res) ==
    /\ worker.pc = "collect"
    /\ IF res.ok
       THEN /\ worker' = [worker EXCEPT !.pc = IF res.tasks = <<>> THEN "tick" ELSE "tasks",
                                        !.collected = res.tasks,
                                        !.pending = res.tasks,
                                        !.ran = <<>>]
            /\ UNCHANGED <<session_vars, trim_before, other_commands, daemon_vars>>
       ELSE /\ worker' = [worker EXCEPT !.pc = "none"]
            /\ run_returned("heartbeat", "Err")

(* agent::run(config.clone(), Some(prompt), ..) in single-message mode: a  *)
(* history of its own, the System message and the prompt                    *)
one_shot_history(prompt) == <<System(SystemPrompt), User(prompt)>>
heartbeat_prompt(task) == <<"[Heartbeat Task] ", task>>

(* the variant leaves the loop over the tasks at the first failed turn *)
pending_after_task_unless_failed(pending, ok) == IF ok THEN Tail(pending) ELSE <<>>
pending_after_task(pending, ok) == Tail(pending)

(* One pass of `for task in tasks`: the turn, then the health entry *)
heartbeat_run_task(ok) ==
    /\ worker.pc = "tasks"
    /\ ~aborted
    /\ LET task == Head(worker.pending)
           rest == pending_after_task(worker.pending, ok)
       IN worker' = [worker EXCEPT
                        !.pending = rest,
                        !.ran = Append(@, [task |-> task, ok |-> ok,
                                           history |-> one_shot_history(heartbeat_prompt(task))]),
                        !.pc = IF rest = <<>> THEN "tick" ELSE "tasks"]
    /\ health' = IF ok THEN mark_component_ok(health, "heartbeat")
                 ELSE mark_component_error(health, "heartbeat", "task failed")
    /\ UNCHANGED <<session_vars, trim_before, other_commands, probe_vars, reliability, daemon_pc,
                   aborted, sup, outcomes, file_vars>>

(* a minute passes while the worker waits for its tick or runs a turn *)
minute_passes ==
    /\ worker.pc \in {"tick", "tasks"}
    /\ worker.clock < MaxMinutes
    /\ worker' = [worker EXCEPT !.clock = worker.clock + 1]
    /\ UNCHANGED <<session_vars, trim_before, other_commands, daemon_vars>>

(* An aborted task is dropped at the await it is parked on *)
abort_requested == aborted

supervisor_cancelled(c) ==
    /\ abort_requested
    /\ sup[c].pc \in {"spawned", "running", "sleeping"}
    /\ sup' = [sup EXCEPT ![c].pc = "cancelled"]
    /\ UNCHANGED <<session_vars, trim_before, command_vars, probe_vars, reliability, daemon_pc, aborted, outcomes,
                   health, file_vars>>

(* The tests of daemon/mod.rs: one supervisor spawned with the raw values, *)
(* then handle.abort()                                                      *)
test_spawn(c) ==
    /\ daemon_pc = "off"
    /\ \A d \in Components : sup[d].pc = "unspawned"
    /\ sup' = [sup EXCEPT ![c] = spawn_component_supervisor(reliability.channel_initial_backoff_secs,
                                                            reliability.channel_max_backoff_secs)]
    /\ UNCHANGED <<session_vars, trim_before, command_vars, probe_vars, reliability, daemon_pc, aborted, outcomes,
                   health, file_vars>>

test_abort ==
    /\ daemon_pc = "off"
    /\ ~aborted
    /\ \E c \in Components : sup[c].pc # "unspawned"
    /\ aborted' = TRUE
    /\ UNCHANGED <<session_vars, trim_before, command_vars, probe_vars, reliability, daemon_pc, supervisor_vars,
                   file_vars>>

(* daemon/mod.rs: run, spawn_state_writer; doctor/mod.rs: run *)

(* std::process::id().to_string(), as the characters of the file *)
OwnPid == <<"7">>

(* write_pid_file up to the println!s: the writer and every supervisor are *)
(* spawned with the back-offs clamped as run clamps them                   *)
daemon_start ==
    /\ daemon_pc = "off"
    /\ \A c \in Components : sup[c].pc = "unspawned"
    /\ pid_file' = Some(OwnPid)
    /\ health' = mark_component_ok(health, "daemon")
    /\ writer_pc' = "tick"
    /\ LET initial == Max(reliability.channel_initial_backoff_secs, 1)
           max_backoff == Max(reliability.channel_max_backoff_secs, initial)
       IN sup' = [c \in Components |-> spawn_component_supervisor(initial, max_backoff)]
    /\ daemon_pc' = "ctrl_c"
    /\ UNCHANGED <<session_vars, trim_before, command_vars, probe_vars, reliability, aborted, outcomes,
                   blocking_write, state_file, doctor_result>>

(* interval.tick() fired: the snapshot is taken and tokio::fs::write hands *)
(* std::fs::write to the blocking pool and awaits it                       *)
state_writer_tick ==
    /\ writer_pc = "tick"
    /\ ~aborted
    /\ blocking_write' = "queued"
    /\ writer_pc' = "writing"
    /\ UNCHANGED <<session_vars, trim_before, command_vars, probe_vars, reliability, daemon_pc, aborted,
                   supervisor_vars, state_file, pid_file, doctor_result>>

(* std::fs::write on the blocking thread, first half: File::create makes   *)
(* or truncates the file                                                   *)
fs_write_create ==
    /\ blocking_write = "queued"
    /\ state_file' = "empty"
    /\ blocking_write' = "created"
    /\ UNCHANGED <<session_vars, trim_before, command_vars, probe_vars, reliability, daemon_pc, aborted,
                   supervisor_vars, writer_pc, pid_file, doctor_result>>

(* Second half: write_all on the open file; a file unlinked meanwhile stays *)
(* unlinked.  The awaiting writer task, when there still is one, goes on.   *)
fs_write_all ==
    /\ blocking_write = "created"
    /\ state_file' = IF state_file = "absent" THEN "absent" ELSE "snapshot"
    /\ blocking_write' = "none"
    /\ writer_pc' = IF writer_pc = "writing" THEN "tick" ELSE writer_pc
    /\ UNCHANGED <<session_vars, trim_before, command_vars, probe_vars, reliability, daemon_pc, aborted,
                   supervisor_vars, pid_file, doctor_result>>

(* The runtime shuts down after run returned: a blocking job that no thread *)
(* has taken yet is dropped                                                *)
blocking_job_dropped ==
    /\ daemon_pc = "done"
    /\ blocking_write = "queued"
    /\ blocking_write' = "none"
    /\ UNCHANGED <<session_vars, trim_before, command_vars, probe_vars, reliability, daemon_pc, aborted,
                   supervisor_vars, writer_pc, state_file, pid_file, doctor_result>>

(* The aborted writer task is dropped at its await; the job on the blocking *)
(* pool is not part of the task                                            *)
state_writer_cancelled ==
    /\ abort_requested
    /\ writer_pc \in {"tick", "writing"}
    /\ writer_pc' = "cancelled"
    /\ UNCHANGED <<session_vars, trim_before, command_vars, probe_vars, reliability, daemon_pc, aborted,
                   supervisor_vars, blocking_write, state_file, pid_file, doctor_result>>

(* ctrl_c().await returned: the mark and the loop of handle.abort() *)
interrupt ==
    /\ daemon_pc = "ctrl_c"
    /\ health' = mark_component_error(health, "daemon", "shutdown requested")
    /\ aborted' = TRUE
    /\ daemon_pc' = "joining"
    /\ UNCHANGED <<session_vars, trim_before, command_vars, probe_vars, reliability, sup, outcomes, file_vars>>

(* Every handle.await returned: remove_pid_file, remove_file(state file), Ok(()) *)
daemon_returns ==
    /\ daemon_pc = "joining"
    /\ \A c \in Components : sup[c].pc = "cancelled"
    /\ writer_pc = "cancelled"
    /\ pid_file' = None
    /\ state_file' = "absent"
    /\ daemon_pc' = "done"
    /\ UNCHANGED <<session_vars, trim_before, command_vars, probe_vars, reliability, aborted, supervisor_vars,
                   writer_pc, blocking_write, doctor_result>>

(* doctor::run in another process: exists(), read_to_string, from_str *)
doctor_run ==
    /\ doctor_result' = IF state_file = "absent" THEN "not found"
                        ELSE IF state_file = "empty" THEN "parse error"
                        ELSE "report"
    /\ UNCHANGED <<session_vars, trim_before, command_vars, probe_vars, reliability, daemon_pc, aborted,
                   supervisor_vars, writer_pc, blocking_write, state_file, pid_file>>

(* daemon/mod.rs: is_daemon_running *)

(* u32::MAX, scaled down to two decimal digits so that a parse can overflow *)
u32_MAX == 99

Digits == {"0", "7"}
PidChars == Whitespace \cup Digits \cup {"+", "-", "x"}
DigitValue(ch) == IF ch = "7" THEN 7 ELSE 0

(* str::parse::<u32>: an optional '+', then one or more digits, no overflow *)
RECURSIVE parse_digits(_, _)
parse_digits(s, acc) ==
    IF s = <<>> THEN Some(acc)
    ELSE IF s[1] \notin Digits THEN None
    ELSE IF acc * 10 + DigitValue(s[1]) > u32_MAX THEN None
    ELSE parse_digits(Tail(s), acc * 10 + DigitValue(s[1]))

parse_u32(s) ==
    LET digits == IF s # <<>> /\ s[1] = "+" THEN Tail(s) ELSE s
    IN IF digits = <<>> THEN None ELSE parse_digits(digits, 0)

(* One call of is_daemon_running: read_to_string(..).ok()?, parse().ok()?,  *)
(* then the probe under cfg(unix), or Some(pid) under cfg(not(unix))        *)
file_pid == IF IsSome(pid_file) THEN parse_u32(trim(pid_file[1])) ELSE None
(* what the call returns, and the PID file it leaves *)
running_pid == IF IsSome(file_pid) /\ (~unix \/ file_pid[1] \in kill_ok) THEN file_pid ELSE None
pid_file_after_probe == IF IsSome(file_pid) /\ ~IsSome(running_pid) THEN None ELSE pid_file

is_daemon_running ==
    /\ ~is_running.called
    /\ is_running' = [called |-> TRUE, value |-> running_pid]
    /\ pid_file' = pid_file_after_probe
    /\ UNCHANGED <<session_vars, trim_before, command_vars, unix, kill_ok, reliability, daemon_pc, aborted,
                   supervisor_vars, writer_pc, blocking_write, state_file, doctor_result>>

(* daemon/mod.rs: stop_daemon *)

(* the bound of `for _ in 0..100` *)
PollCount == 100

(* the loop ran its last round *)
timed_out_early(polls) == polls = PollCount - 1
timed_out(polls) == polls = PollCount

NotStopping == [pc |-> "idle", pid |-> None, running |-> FALSE, polls |-> 0, signals |-> <<>>]

(* let Some(pid) = is_daemon_running(config) else { return Ok(()) } *)
stop_daemon_call ==
    /\ stop.pc = "idle"
    /\ stop' = [stop EXCEPT !.pc = IF IsSome(running_pid) THEN "sigterm" ELSE "ok",
                            !.pid = running_pid,
                            !.running = IsSome(file_pid) /\ file_pid[1] \in kill_ok]
    /\ pid_file' = pid_file_after_probe
    /\ UNCHANGED <<session_vars, trim_before, library_vars, unix, kill_ok, is_running, reliability, daemon_pc,
                   aborted, supervisor_vars, writer_pc, blocking_write, state_file,
                   doctor_result>>

(* cfg(unix): kill(pid, SIGTERM), bail when it fails; cfg(not(unix)): bail *)
send_sigterm ==
    /\ stop.pc = "sigterm"
    /\ stop' = IF ~unix THEN [stop EXCEPT !.pc = "err"]
               ELSE [stop EXCEPT !.signals = Append(@, "SIGTERM"),
                                 !.pc = IF stop.pid[1] \in kill_ok THEN "poll" ELSE "err"]
    /\ UNCHANGED <<session_vars, trim_before, library_vars, probe_vars, reliability, daemon_pc, aborted,
                   supervisor_vars, file_vars>>

(* One round of the loop: sleep(100 ms), then is_daemon_running; on None   *)
(* remove_file(&pid_path) and return Ok(())                                 *)
poll ==
    /\ stop.pc = "poll"
    /\ ~timed_out(stop.polls)
    /\ stop' = [stop EXCEPT !.polls = @ + 1,
                            !.pc = IF IsSome(running_pid) THEN "poll" ELSE "ok"]
    /\ pid_file' = IF IsSome(running_pid) THEN pid_file ELSE None
    /\ UNCHANGED <<session_vars, trim_before, library_vars, probe_vars, reliability, daemon_pc, aborted,
                   supervisor_vars, writer_pc, blocking_write, state_file, doctor_result>>

(* The loop ran out: kill(pid, SIGKILL), remove_file(&pid_path), Ok(()) *)
send_sigkill ==
    /\ stop.pc = "poll"
    /\ timed_out(stop.polls)
    /\ stop' = [stop EXCEPT !.signals = Append(@, "SIGKILL"), !.pc = "ok"]
    /\ kill_ok' = kill_ok \ {stop.pid[1]}
    /\ pid_file' = None
    /\ UNCHANGED <<session_vars, trim_before, library_vars, unix, is_running, reliability, daemon_pc, aborted,
                   supervisor_vars, writer_pc, blocking_write, state_file, doctor_result>>

(* The daemon process ends while stop_daemon runs: through run's shutdown, *)
(* which removes the PID file, or without it                                *)
process_exits ==
    /\ stop.pc \in {"sigterm", "poll"}
    /\ stop.pid[1] \in kill_ok
    /\ kill_ok' = kill_ok \ {stop.pid[1]}
    /\ pid_file' \in {pid_file, None}
    /\ UNCHANGED <<session_vars, trim_before, library_vars, unix, is_running, stop, reliability, daemon_pc,
                   aborted, supervisor_vars, writer_pc, blocking_write, state_file,
                   doctor_result>>

(* The daemon of daemon_start as a process that signals reach *)
DaemonPid == 7
alive == DaemonPid \in kill_ok

(* SIGTERM reaches the daemon: run awaits ctrl_c() and nothing else, no    *)
(* handler is installed for SIGTERM, and the process ends where it stands   *)
sigterm_terminates ==
    /\ alive
    /\ stop.pid = Some(DaemonPid)
    /\ stop.signals # <<>>
    /\ kill_ok' = kill_ok \ {DaemonPid}
    /\ UNCHANGED <<session_vars, trim_before, command_vars, unix, is_running, reliability, daemon_pc,
                   aborted, supervisor_vars, file_vars>>

(* run returned Ok(()) to main and the process is gone *)
process_returns ==
    /\ alive
    /\ daemon_pc = "done"
    /\ kill_ok' = kill_ok \ {DaemonPid}
    /\ UNCHANGED <<session_vars, trim_before, command_vars, unix, is_running, reliability, daemon_pc,
                   aborted, supervisor_vars, file_vars>>

(* main.rs: Commands::Daemon; daemon/mod.rs: run, as daemon.pid sees them *)

(* std::process::id().to_string() of process p *)
PidText(p) == IF p = 7 THEN OwnPid ELSE IF p = 70 THEN <<"7", "0">> ELSE <<"7", "7">>

(* std::fs::write(&path, std::process::id().to_string()) *)
write_pid_file(p) == Some(PidText(p))

(* The background branch of main: is_daemon_running, return when it names  *)
(* a PID, else cmd.spawn() of `daemon --foreground`; p is the child         *)
start_background(p) ==
    /\ instances[p] = "off"
    /\ pid_file' = pid_file_after_probe
    /\ IF IsSome(running_pid)
       THEN /\ instances' = [instances EXCEPT ![p] = "refused"]
            /\ UNCHANGED kill_ok
       ELSE /\ instances' = [instances EXCEPT ![p] = "spawned"]
            /\ kill_ok' = kill_ok \cup {p}
    /\ UNCHANGED <<session_vars, trim_before, other_commands_but_races, heartbeat_vars, scheduler,
                   unix, is_running, reliability, daemon_pc, aborted, supervisor_vars,
                   writer_pc, blocking_write, state_file, doctor_result>>

(* The --foreground branch of main: daemon::run is called, p is the process *)
start_foreground(p) ==
    /\ instances[p] = "off"
    /\ instances' = [instances EXCEPT ![p] = "spawned"]
    /\ kill_ok' = kill_ok \cup {p}
    /\ UNCHANGED <<session_vars, trim_before, other_commands_but_races, heartbeat_vars, scheduler,
                   unix, is_running, reliability, daemon_pc, aborted, supervisor_vars,
                   file_vars>>

(* The first statement of run: write_pid_file(&config)? *)
run_write_pid_file(p) ==
    /\ instances[p] = "spawned"
    /\ pid_file' = write_pid_file(p)
    /\ instances' = [instances EXCEPT ![p] = "running"]
    /\ UNCHANGED <<session_vars, trim_before, other_commands_but_races, heartbeat_vars, scheduler,
                   probe_vars, reliability, daemon_pc, aborted, supervisor_vars,
                   writer_pc, blocking_write, state_file, doctor_result>>

(* ctrl_c() returned in p: the tasks are aborted and joined,               *)
(* remove_pid_file, Ok(()), and the process is gone                         *)
run_shutdown(p) ==
    /\ instances[p] = "running"
    /\ pid_file' = None
    /\ instances' = [instances EXCEPT ![p] = "done"]
    /\ kill_ok' = kill_ok \ {p}
    /\ UNCHANGED <<session_vars, trim_before, other_commands_but_races, heartbeat_vars, scheduler,
                   unix, is_running, reliability, daemon_pc, aborted, supervisor_vars,
                   writer_pc, blocking_write, state_file, doctor_result>>

(* cron/mod.rs *)

(* Text as SQLite compares it: byte by byte, a proper prefix first *)
DecimalDigits == <<"0", "1", "2", "3", "4", "5", "6", "7", "8", "9">>
DigitChar(d) == DecimalDigits[d + 1]
DigitOf(ch) == CHOOSE d \in 0..9 : DecimalDigits[d + 1] = ch
Byte(ch) == IF ch = "+" THEN 43 ELSE IF ch = "." THEN 46 ELSE 48 + DigitOf(ch)

RECURSIVE text_le(_, _)
text_le(a, b) ==
    IF a = <<>> THEN TRUE
    ELSE IF b = <<>> THEN FALSE
    ELSE IF Byte(a[1]) # Byte(b[1]) THEN Byte(a[1]) < Byte(b[1])
    ELSE text_le(Tail(a), Tail(b))

(* DateTime<Utc>::to_rfc3339: the whole seconds at a fixed width, the      *)
(* fraction only when there is one, then the offset                         *)
to_rfc3339(t) ==
    <<DigitChar((t \div 2) \div 10), DigitChar((t \div 2) % 10)>>
    \o (IF t % 2 = 1 THEN <<".", "5">> ELSE <<>>)
    \o <<"+">>

parse_rfc3339(raw) ==
    2 * (10 * DigitOf(raw[1]) + DigitOf(raw[2])) + (IF raw[3] = "." THEN 1 ELSE 0)

(* str::split_whitespace: the maximal runs of non-whitespace *)
RECURSIVE split_whitespace(_)
split_whitespace(s) ==
    IF s = <<>> THEN <<>>
    ELSE IF s[1] \in Whitespace THEN split_whitespace(Tail(s))
    ELSE LET rest == split_whitespace(Tail(s))
         IN IF Len(s) > 1 /\ s[2] \notin Whitespace
            THEN <<(<<s[1]>> \o rest[1])>> \o Tail(rest)
            ELSE <<(<<s[1]>>)>> \o rest

(* the same, but formatting the expression as it was given *)
normalize_expression_verbatim(expression) ==
    LET field_count == Len(split_whitespace(trim(expression)))
    IN IF field_count = 5 THEN Some(<<"0", " ">> \o expression)
       ELSE IF field_count \in {6, 7} THEN Some(expression)
       ELSE None

(* normalize_expression: None stands for the Err of the last arm *)
normalize_expression(expression) ==
    LET trimmed == trim(expression)
        field_count == Len(split_whitespace(trimmed))
    IN IF field_count = 5 THEN Some(<<"0", " ">> \o trimmed)
       ELSE IF field_count \in {6, 7} THEN Some(trimmed)
       ELSE None

(* cron::Schedule::from_str and Schedule::after, for the fields the model  *)
(* uses: seconds "*" or "0", any other field "*", and a year field         *)
(* "1970" that stands for the seconds 0..YearEnd                           *)
YearEnd == 1

SecondsFields == {<<"*">>, <<"0">>}
YearFields == {<<"*">>, <<"1", "9", "7", "0">>}

Schedule_from_str(text) ==
    LET fields == split_whitespace(text)
    IN IF /\ Len(fields) \in {6, 7}
          /\ fields[1] \in SecondsFields
          /\ \A i \in 2..6 : fields[i] = <<"*">>
          /\ Len(fields) = 7 => fields[7] \in YearFields
       THEN Some(fields)
       ELSE None

fires(fields, sec) ==
    /\ fields[1] = <<"0">> => sec % 60 = 0
    /\ Len(fields) = 7 /\ fields[7] # <<"*">> => sec <= YearEnd

(* the first firing time at or after from *)
schedule_from(fields, from) ==
    LET upcoming == {sec \in (from \div 2)..((from \div 2) + 60) :
                        2 * sec >= from /\ fires(fields, sec)}
    IN IF upcoming = {} THEN None
       ELSE Some(2 * (CHOOSE sec \in upcoming : \A other \in upcoming : sec <= other))

(* schedule.after(&from).next(): the first firing time strictly after from *)
schedule_after(fields, from) ==
    LET upcoming == {sec \in (from \div 2)..((from \div 2) + 60) :
                        2 * sec > from /\ fires(fields, sec)}
    IN IF upcoming = {} THEN None
       ELSE Some(2 * (CHOOSE sec \in upcoming : \A other \in upcoming : sec <= other))

(* which of the three `?` of next_run_for returned *)
next_run_error(expression, from) ==
    LET normalized_expression == normalize_expression(expression)
    IN IF ~IsSome(normalized_expression) THEN "field count"
       ELSE IF ~IsSome(Schedule_from_str(normalized_expression[1])) THEN "invalid expression"
       ELSE "no future time"

next_run_for(expression, from) ==
    LET normalized_expression == normalize_expression(expression)
        schedule == IF IsSome(normalized_expression)
                    THEN Schedule_from_str(normalized_expression[1]) ELSE None
    IN IF IsSome(schedule) THEN schedule_after(schedule[1], from) ELSE None

(* The rows a SELECT returns, as CronJob values, ORDER BY next_run ASC *)
CronJob(row) ==
    [id |-> row.id, expression |-> row.expression, command |-> row.command,
     next_run |-> parse_rfc3339(row.next_run),
     last_run |-> IF IsSome(row.last_run) THEN Some(parse_rfc3339(row.last_run[1])) ELSE None,
     last_status |-> row.last_status]

RowsWhere(keep(_)) == {i \in 1..Len(cron_jobs) : keep(cron_jobs[i])}

(* the rows in insertion order *)
order_by_rowid(rows) ==
    CHOOSE q \in [1..Cardinality(rows) -> rows] :
        \A i, j \in 1..Cardinality(rows) : i < j => q[i] < q[j]

order_by_next_run(rows) ==
    CHOOSE q \in [1..Cardinality(rows) -> rows] :
        /\ \A i, j \in 1..Cardinality(rows) : i # j => q[i] # q[j]
        /\ \A i, j \in 1..Cardinality(rows) :
               i < j => text_le(cron_jobs[q[i]].next_run, cron_jobs[q[j]].next_run)

select(keep(_)) ==
    LET order == order_by_next_run(RowsWhere(keep))
    IN [i \in 1..Len(order) |-> CronJob(cron_jobs[order[i]])]

(* `added` and `before`: the job the last add_job stored and the table it   *)
(* found, kept for as long as only list_jobs was called since               *)
NoCall == [op |-> "none", ok |-> TRUE, error |-> "none", id |-> 0, jobs |-> <<>>, at |-> 0,
           added |-> 0, before |-> <<>>, uuids |-> 0]

Called(op, ok, id, jobs, at) ==
    [op |-> op, ok |-> ok, error |-> "none", id |-> id, jobs |-> jobs, at |-> at,
     added |-> IF op = "add" THEN id ELSE IF op = "list" THEN cron_call.added ELSE 0,
     before |-> IF op = "add" /\ ok THEN cron_jobs
                ELSE IF op = "list" THEN cron_call.before ELSE <<>>,
     uuids |-> cron_call.uuids]

(* add_job: Utc::now(), next_run_for(..)?, Uuid::new_v4(), INSERT; column *)
(* created_at, which nothing reads, is left out of the rows                *)
(* `next_run_for(expression, now)?` of add_job: an Err leaves the function; *)
(* the variant goes on with now as the first run                            *)
propagate_or_now(next_run, at) == IF IsSome(next_run) THEN next_run ELSE Some(at)
propagate(next_run, at) == next_run

add_job(expression, command) ==
    /\ LET next_run == propagate(next_run_for(expression, utc_now), utc_now)
           id == cron_call.uuids + 1
       IN IF ~IsSome(next_run)
          THEN /\ cron_call' = [Called("add", FALSE, 0, <<>>, utc_now)
                                EXCEPT !.error = next_run_error(expression, utc_now)]
               /\ UNCHANGED cron_jobs
          ELSE /\ cron_jobs' = Append(cron_jobs,
                      [id |-> id, expression |-> expression, command |-> command,
                       next_run |-> to_rfc3339(next_run[1]),
                       last_run |-> None, last_status |-> None, last_output |-> None])
               /\ cron_call' = [Called("add", TRUE, id,
                                   <<[id |-> id, expression |-> expression,
                                      command |-> command, next_run |-> next_run[1],
                                      last_run |-> None, last_status |-> None]>>, utc_now)
                                EXCEPT !.uuids = id]
    /\ UNCHANGED <<session_vars, trim_before, daemon_vars, stop, pure_vars, utc_now>>

(* list_jobs *)
list_jobs ==
    /\ cron_call' = Called("list", TRUE, 0, select(LAMBDA row : TRUE), utc_now)
    /\ UNCHANGED <<session_vars, trim_before, daemon_vars, stop, pure_vars, cron_jobs, utc_now>>

(* remove_job: DELETE .. WHERE id = ?1, an error when no row went *)
remove_job(id) ==
    /\ cron_jobs' = SelectSeq(cron_jobs, LAMBDA row : row.id # id)
    /\ LET changed == Len(cron_jobs) - Len(SelectSeq(cron_jobs, LAMBDA row : row.id # id))
       IN cron_call' = [Called("remove", changed # 0, id, <<>>, utc_now)
                        EXCEPT !.error = IF changed = 0 THEN "not found" ELSE "none"]
    /\ UNCHANGED <<session_vars, trim_before, daemon_vars, stop, pure_vars, utc_now>>

(* due_jobs(config, now): .. WHERE next_run <= ?1, both sides as text *)
(* SELECT .. WHERE next_run <= ?1 ORDER BY next_run ASC *)
due_rows(now_arg) == select(LAMBDA row : text_le(row.next_run, to_rfc3339(now_arg)))

due_jobs(now_arg) ==
    /\ cron_call' = Called("due", TRUE, 0, due_rows(now_arg), now_arg)
    /\ UNCHANGED <<session_vars, trim_before, daemon_vars, stop, pure_vars, cron_jobs, utc_now>>

(* reschedule_after_run: Utc::now(), next_run_for(..)?, UPDATE .. WHERE id *)
(* next_run_for(..)?, then UPDATE cron_jobs SET .. WHERE id = ?5 *)
update_after_run(job, success, output) ==
    /\ LET next_run == next_run_for(job.expression, utc_now)
           ok_or_error == IF success THEN "ok" ELSE "error"
       IN IF ~IsSome(next_run)
          THEN /\ cron_call' = [Called("reschedule", FALSE, job.id, <<>>, utc_now)
                                EXCEPT !.error = next_run_error(job.expression, utc_now)]
               /\ UNCHANGED cron_jobs
          ELSE /\ cron_jobs' =
                      [i \in 1..Len(cron_jobs) |->
                          IF cron_jobs[i].id = job.id
                          THEN [cron_jobs[i] EXCEPT !.next_run = to_rfc3339(next_run[1]),
                                                    !.last_run = Some(to_rfc3339(utc_now)),
                                                    !.last_status = Some(ok_or_error),
                                                    !.last_output = Some(output)]
                          ELSE cron_jobs[i]]
               /\ cron_call' = Called("reschedule", TRUE, job.id, <<>>, utc_now)

reschedule_after_run(job, success, output) ==
    /\ update_after_run(job, success, output)
    /\ UNCHANGED <<session_vars, trim_before, daemon_vars, stop, pure_vars, utc_now>>

(* cron/scheduler.rs, the tick loop *)

remove_at(jobs, i) == SubSeq(jobs, 1, i - 1) \o SubSeq(jobs, i + 1, Len(jobs))

(* One tick: due_jobs(&config, Utc::now()), with every job of the last     *)
(* tick done                                                                *)
scheduler_tick ==
    /\ scheduler = <<>>
    /\ cron_call' = Called("due", TRUE, 0, due_rows(utc_now), utc_now)
    /\ scheduler' = due_rows(utc_now)
    /\ UNCHANGED <<session_vars, trim_before, daemon_vars, stop, normalized, exchange, endpoint,
                   wire_arguments, serde_vars, heartbeat_vars, instances, cron_jobs, utc_now>>

(* The command of one of the jobs read has run:                            *)
(* reschedule_after_run(&job, success, &output)                             *)
scheduler_job_ran(success) ==
    /\ \E i \in 1..Len(scheduler) :
           /\ update_after_run(scheduler[i], success, "out")
           /\ scheduler' = remove_at(scheduler, i)
    /\ UNCHANGED <<session_vars, trim_before, daemon_vars, stop, normalized, exchange, endpoint,
                   wire_arguments, serde_vars, heartbeat_vars, instances, utc_now>>

(* normalize_expression, called on its own *)
normalize_expression_call ==
    /\ ~normalized.called
    /\ normalized' = [normalized EXCEPT !.called = TRUE,
                                        !.value = normalize_expression(normalized.expression)]
    /\ UNCHANGED <<session_vars, trim_before, daemon_vars, stop, cron_vars, exchange,
                   endpoint, wire_arguments, late_vars>>

(* Time passes *)
utc_tick ==
    /\ utc_now < 2 * MaxClock + 1
    /\ utc_now' = utc_now + 1
    /\ UNCHANGED <<session_vars, trim_before, daemon_vars, stop, pure_vars, cron_jobs, cron_call>>

(* providers/compatible.rs *)

WireToolCall(id, name, arguments) ==
    [id |-> id, kind |-> "function", function |-> [name |-> name, arguments |-> arguments]]

NotReturned == [kind |-> "none", text |-> None, tool_calls |-> <<>>]
OkString(t) == [kind |-> "Ok", text |-> Some(t), tool_calls |-> <<>>]

NoExchange ==
    [api_key |-> TRUE, status |-> "200", choices |-> <<>>,
     responses_status |-> "200", responses_text |-> None,
     method |-> "none", requests |-> <<>>, result |-> NotReturned]

(* response.status().is_success() *)
is_success(code) == code = "200"

(* status == StatusCode::NOT_FOUND, the one case chat_with_system retries  *)
(* through chat_via_responses; the variant retries after any failure       *)
falls_back_on_any_failure(code) == ~is_success(code)
falls_back(code) == code = "404"

(* chat_via_responses: POST to responses_url, then extract_responses_text *)
chat_via_responses ==
    IF exchange.responses_status = "200" /\ IsSome(exchange.responses_text)
    THEN OkString(exchange.responses_text[1])
    ELSE ProviderError

(* if let Some(wire_tool_calls) = msg.tool_calls { if !is_empty() ..; the  *)
(* variant leaves the inner test out                                        *)
has_tool_calls_field(msg) == IsSome(msg.tool_calls)
has_tool_calls(msg) == IsSome(msg.tool_calls) /\ msg.tool_calls[1] # <<>>

(* chat_with_system of OpenAiCompatibleProvider *)
provider_chat_with_system ==
    /\ exchange.method = "none"
    /\ exchange' =
          IF ~exchange.api_key
          THEN [exchange EXCEPT !.method = "chat_with_system", !.result = ProviderError]
          ELSE IF exchange.status = "send failed"
          THEN [exchange EXCEPT !.method = "chat_with_system", !.requests = <<"chat">>,
                                !.result = ProviderError]
          ELSE IF ~is_success(exchange.status)
          THEN IF falls_back(exchange.status)
               THEN [exchange EXCEPT !.method = "chat_with_system",
                                     !.requests = <<"chat", "responses">>,
                                     !.result = chat_via_responses]
               ELSE [exchange EXCEPT !.method = "chat_with_system", !.requests = <<"chat">>,
                                     !.result = ProviderError]
          ELSE [exchange EXCEPT
                   !.method = "chat_with_system", !.requests = <<"chat">>,
                   !.result = IF exchange.choices # <<>> /\ IsSome(exchange.choices[1].content)
                              THEN OkString(exchange.choices[1].content[1])
                              ELSE ProviderError]
    /\ UNCHANGED <<session_vars, trim_before, daemon_vars, stop, cron_vars, normalized,
                   endpoint, wire_arguments, late_vars>>

(* chat_with_tools of OpenAiCompatibleProvider *)
provider_chat_with_tools ==
    /\ exchange.method = "none"
    /\ exchange' =
          IF ~exchange.api_key
          THEN [exchange EXCEPT !.method = "chat_with_tools", !.result = ProviderError]
          ELSE IF ~is_success(exchange.status) \/ exchange.choices = <<>>
          THEN [exchange EXCEPT !.method = "chat_with_tools", !.requests = <<"chat">>,
                                !.result = ProviderError]
          ELSE LET msg == exchange.choices[1]
               IN [exchange EXCEPT
                      !.method = "chat_with_tools", !.requests = <<"chat">>,
                      !.result =
                          IF has_tool_calls(msg)
                          THEN ToolUse([i \in 1..Len(msg.tool_calls[1]) |->
                                          ToolCall(msg.tool_calls[1][i].id,
                                                   msg.tool_calls[1][i].function.name,
                                                   msg.tool_calls[1][i].function.arguments)],
                                       msg.content)
                          ELSE IF IsSome(msg.content) THEN Text(msg.content[1])
                          ELSE ProviderError]
    /\ UNCHANGED <<session_vars, trim_before, daemon_vars, stop, cron_vars, normalized,
                   endpoint, wire_arguments, late_vars>>

(* A URL is a sequence of pieces; "chat/completions" is one piece, and no   *)
(* other piece holds a part of it                                           *)
ChatCompletions == "chat/completions"

(* str::trim_end_matches('/') *)
RECURSIVE trim_end_matches_slash(_)
trim_end_matches_slash(url) ==
    IF url # <<>> /\ Last(url) = "/"
    THEN trim_end_matches_slash(SubSeq(url, 1, Len(url) - 1))
    ELSE url

(* str::ends_with and str::contains, of "chat/completions" *)
ends_with_chat_completions(url) == url # <<>> /\ Last(url) = ChatCompletions
contains_chat_completions(url) == \E i \in 1..Len(url) : url[i] = ChatCompletions

(* chat_completions_url *)
chat_completions_url(base_url) ==
    IF contains_chat_completions(base_url) THEN base_url
    ELSE base_url \o <<"/", ChatCompletions>>

NoEndpoint == [configured |-> <<>>, base_url |-> None, url |-> None]

(* OpenAiCompatibleProvider::new *)
provider_new ==
    /\ endpoint.base_url = None
    /\ endpoint' = [endpoint EXCEPT !.base_url = Some(trim_end_matches_slash(endpoint.configured))]
    /\ UNCHANGED <<session_vars, trim_before, daemon_vars, stop, cron_vars, normalized,
                   exchange, wire_arguments, late_vars>>

(* self.chat_completions_url() *)
chat_completions_url_call ==
    /\ endpoint.base_url # None
    /\ endpoint.url = None
    /\ endpoint' = [endpoint EXCEPT !.url = Some(chat_completions_url(endpoint.base_url[1]))]
    /\ UNCHANGED <<session_vars, trim_before, daemon_vars, stop, cron_vars, normalized,
                   exchange, wire_arguments, late_vars>>

(* serde_json::Value, for the values the model uses: null, strings, arrays *)
(* and objects; an object is a function from its keys to values             *)
JNull == [t |-> "null", s |-> <<>>, fields |-> <<>>, items |-> <<>>]
JString(chars) == [t |-> "string", s |-> chars, fields |-> <<>>, items |-> <<>>]
JObject(fields) == [t |-> "object", s |-> <<>>, fields |-> fields, items |-> <<>>]
JArray(items) == [t |-> "array", s |-> <<>>, fields |-> <<>>, items |-> items]

(* Display for Value: compact JSON, strings escaped, keys in their order *)
RECURSIVE escape(_)
escape(chars) ==
    IF chars = <<>> THEN <<>>
    ELSE (IF chars[1] \in {"\"", "\\"} THEN <<"\\", chars[1]>> ELSE <<chars[1]>>)
         \o escape(Tail(chars))

quoted(chars) == <<"\"">> \o escape(chars) \o <<"\"">>

JsonKeys == <<(<<"a">>), (<<"b">>)>>

(* members or items, separated by commas *)
RECURSIVE join_commas(_)
join_commas(texts) ==
    IF texts = <<>> THEN <<>>
    ELSE IF Len(texts) = 1 THEN texts[1]
    ELSE texts[1] \o <<",">> \o join_commas(Tail(texts))

RECURSIVE to_string(_)
RECURSIVE members_to_string(_, _, _)
members_to_string(fields, k, first) ==
    IF k > Len(JsonKeys) THEN <<>>
    ELSE IF JsonKeys[k] \notin DOMAIN fields THEN members_to_string(fields, k + 1, first)
    ELSE (IF first THEN <<>> ELSE <<",">>)
         \o quoted(JsonKeys[k]) \o <<":">> \o to_string(fields[JsonKeys[k]])
         \o members_to_string(fields, k + 1, FALSE)

to_string(value) ==
    IF value.t = "null" THEN <<"n", "u", "l", "l">>
    ELSE IF value.t = "string" THEN quoted(value.s)
    ELSE IF value.t = "array"
    THEN <<"[">> \o join_commas([i \in 1..Len(value.items) |-> to_string(value.items[i])])
         \o <<"]">>
    ELSE <<"{">> \o members_to_string(value.fields, 1, TRUE) \o <<"}">>

(* serde_json::from_str::<Value> on compact JSON; ok = FALSE for an Err *)
ParseFailed == [ok |-> FALSE, value |-> JNull, rest |-> <<>>]
Parsed(value, rest) == [ok |-> TRUE, value |-> value, rest |-> rest]

RECURSIVE parse_chars(_, _)
parse_chars(text, acc) ==
    IF text = <<>> THEN ParseFailed
    ELSE IF text[1] = "\"" THEN Parsed(acc, Tail(text))
    ELSE IF text[1] = "\\"
    THEN IF Len(text) >= 2 /\ text[2] \in {"\"", "\\"}
         THEN parse_chars(SubSeq(text, 3, Len(text)), Append(acc, text[2]))
         ELSE ParseFailed
    ELSE parse_chars(Tail(text), Append(acc, text[1]))

RECURSIVE parse_value(_)
RECURSIVE parse_items(_, _, _)
parse_items(text, items, first) ==
    IF text # <<>> /\ text[1] = "]" /\ (first \/ items # <<>>)
    THEN Parsed(JArray(items), Tail(text))
    ELSE LET item == IF first THEN text
                     ELSE IF text # <<>> /\ text[1] = "," THEN Tail(text) ELSE <<>>
             val == parse_value(item)
         IN IF ~val.ok THEN ParseFailed
            ELSE parse_items(val.rest, Append(items, val.value), FALSE)

RECURSIVE parse_members(_, _, _)
parse_members(text, fields, first) ==
    IF text # <<>> /\ text[1] = "}" THEN Parsed(JObject(fields), Tail(text))
    ELSE LET member == IF first THEN text
                       ELSE IF text # <<>> /\ text[1] = "," THEN Tail(text) ELSE <<>>
         IN IF member = <<>> \/ member[1] # "\"" THEN ParseFailed
            ELSE LET key == parse_chars(Tail(member), <<>>)
                 IN IF ~key.ok \/ key.rest = <<>> \/ key.rest[1] # ":" THEN ParseFailed
                    ELSE LET val == parse_value(Tail(key.rest))
                         IN IF ~val.ok THEN ParseFailed
                            ELSE parse_members(val.rest,
                                     [x \in DOMAIN fields \cup {key.value} |->
                                         IF x = key.value THEN val.value ELSE fields[x]],
                                     FALSE)

parse_value(text) ==
    IF text = <<>> THEN ParseFailed
    ELSE IF text[1] = "\""
    THEN LET chars == parse_chars(Tail(text), <<>>)
         IN IF chars.ok THEN Parsed(JString(chars.value), chars.rest) ELSE ParseFailed
    ELSE IF Len(text) >= 4 /\ SubSeq(text, 1, 4) = <<"n", "u", "l", "l">>
    THEN Parsed(JNull, SubSeq(text, 5, Len(text)))
    ELSE IF text[1] = "{" THEN parse_members(Tail(text), <<>>, TRUE)
    ELSE IF text[1] = "[" THEN parse_items(Tail(text), <<>>, TRUE)
    ELSE ParseFailed

from_str(text) ==
    LET parsed == parse_value(text)
    IN IF parsed.ok /\ parsed.rest = <<>> THEN Some(parsed.value) ELSE None

(* deserialize_arguments, Ok(s) as Some(s); the variant encodes a string   *)
(* like any other value                                                     *)
deserialize_arguments_encoded(value) == Some(to_string(value))
deserialize_arguments(value) ==
    IF value.t = "string" THEN Some(value.s) ELSE Some(to_string(value))

NoArguments == [value |-> JNull, called |-> FALSE, arguments |-> None]

deserialize_arguments_call ==
    /\ ~wire_arguments.called
    /\ wire_arguments' = [wire_arguments EXCEPT
                             !.called = TRUE,
                             !.arguments = deserialize_arguments(wire_arguments.value)]
    /\ UNCHANGED <<session_vars, trim_before, daemon_vars, stop, cron_vars, normalized,
                   exchange, endpoint, late_vars>>

(* providers/traits.rs: Serialize and Deserialize of ChatMessage, derived  *)
(* with tag = "role" and rename_all = "lowercase"                           *)
lowercase(variant) ==
    CASE variant = "System" -> "system"
      [] variant = "User" -> "user"
      [] variant = "Assistant" -> "assistant"
      [] variant = "Tool" -> "tool"

member(key, text) == quoted(<<key>>) \o <<":">> \o text
object(members) == <<"{">> \o join_commas(members) \o <<"}">>

ToolCall_to_json(tc) ==
    object(<<member("id", quoted(tc.id)),
             member("function", object(<<member("name", quoted(tc.name)),
                                         member("arguments", quoted(tc.arguments))>>))>>)

tool_calls_to_json(tcs) ==
    <<"[">> \o join_commas([i \in 1..Len(tcs) |-> ToolCall_to_json(tcs[i])]) \o <<"]">>

(* the variant writes every field, None as null *)
optional_always(key, option, text) ==
    <<member(key, IF IsSome(option) THEN text ELSE <<"n", "u", "l", "l">>)>>
(* skip_serializing_if = "Option::is_none" *)
optional(key, option, text) ==
    IF IsSome(option) THEN <<member(key, text)>> ELSE <<>>

ChatMessage_to_json(msg) ==
    LET role == member("role", quoted(<<lowercase(msg.role)>>))
    IN IF msg.role \in {"System", "User"}
       THEN object(<<role, member("content", quoted(msg.content[1]))>>)
       ELSE IF msg.role = "Assistant"
       THEN object(<<role>>
                   \o optional("content", msg.content,
                               quoted(UnwrapOr(msg.content, <<>>)))
                   \o optional("tool_calls", msg.tool_calls,
                               tool_calls_to_json(UnwrapOr(msg.tool_calls, <<>>))))
       ELSE object(<<role, member("tool_call_id", quoted(msg.tool_call_id)),
                     member("content", quoted(msg.content[1]))>>)

(* a String field: present and a string *)
is_string(fields, key) == <<key>> \in DOMAIN fields /\ fields[<<key>>].t = "string"
(* an Option field: absent, null or of the field's type *)
is_option(fields, key, type) ==
    <<key>> \in DOMAIN fields => fields[<<key>>].t \in {"null", type}
is_present(fields, key) == <<key>> \in DOMAIN fields /\ fields[<<key>>].t # "null"

is_ToolCall(value) ==
    /\ value.t = "object"
    /\ is_string(value.fields, "id")
    /\ <<"function">> \in DOMAIN value.fields
    /\ value.fields[<<"function">>].t = "object"
    /\ is_string(value.fields[<<"function">>].fields, "name")
    /\ is_string(value.fields[<<"function">>].fields, "arguments")

ToolCall_from_value(value) ==
    ToolCall(value.fields[<<"id">>].s,
             value.fields[<<"function">>].fields[<<"name">>].s,
             value.fields[<<"function">>].fields[<<"arguments">>].s)

(* Deserialize for ChatMessage on a parsed document; None for an Err *)
ChatMessage_from_value(value) ==
    IF value.t # "object" \/ ~is_string(value.fields, "role") THEN None
    ELSE LET fields == value.fields
             role == fields[<<"role">>].s
         IN IF role = <<"system">> /\ is_string(fields, "content")
            THEN Some(System(fields[<<"content">>].s))
            ELSE IF role = <<"user">> /\ is_string(fields, "content")
            THEN Some(User(fields[<<"content">>].s))
            ELSE IF /\ role = <<"assistant">>
                    /\ is_option(fields, "content", "string")
                    /\ is_option(fields, "tool_calls", "array")
                    /\ is_present(fields, "tool_calls") =>
                           \A i \in 1..Len(fields[<<"tool_calls">>].items) :
                               is_ToolCall(fields[<<"tool_calls">>].items[i])
            THEN Some(Assistant(
                     IF is_present(fields, "content")
                     THEN Some(fields[<<"content">>].s) ELSE None,
                     IF is_present(fields, "tool_calls")
                     THEN Some([i \in 1..Len(fields[<<"tool_calls">>].items) |->
                                  ToolCall_from_value(fields[<<"tool_calls">>].items[i])])
                     ELSE None))
            ELSE IF /\ role = <<"tool">>
                    /\ is_string(fields, "tool_call_id")
                    /\ is_string(fields, "content")
            THEN Some(Tool(fields[<<"tool_call_id">>].s, fields[<<"content">>].s))
            ELSE None

ChatMessage_from_str(text) ==
    LET document == from_str(text)
    IN IF IsSome(document) THEN ChatMessage_from_value(document[1]) ELSE None

NoChatJson == [message |-> System(<<>>), json |-> None, read |-> FALSE, parsed |-> None]

(* serde_json::to_string(&msg) *)
serialize_message ==
    /\ chat_json.json = None
    /\ chat_json' = [chat_json EXCEPT !.json = Some(ChatMessage_to_json(chat_json.message))]
    /\ UNCHANGED <<session_vars, trim_before, daemon_vars, stop, cron_vars, normalized,
                   exchange, endpoint, wire_arguments, heartbeat_vars, race_vars>>

(* serde_json::from_str::<ChatMessage>(&json) *)
deserialize_message ==
    /\ IsSome(chat_json.json)
    /\ ~chat_json.read
    /\ chat_json' = [chat_json EXCEPT !.read = TRUE,
                                      !.parsed = ChatMessage_from_str(chat_json.json[1])]
    /\ UNCHANGED <<session_vars, trim_before, daemon_vars, stop, cron_vars, normalized,
                   exchange, endpoint, wire_arguments, heartbeat_vars, race_vars>>

InitCommands ==
    /\ stop = NotStopping
    /\ cron_jobs = <<>>
    /\ utc_now = 0
    /\ cron_call = NoCall
    /\ normalized = [expression |-> <<>>, called |-> FALSE, value |-> None]
    /\ exchange = NoExchange
    /\ endpoint = NoEndpoint
    /\ wire_arguments = NoArguments
    /\ chat_json = NoChatJson
    /\ worker = NoWorker
    /\ instances = NoInstances
    /\ scheduler = NoScheduler

InitDaemonOff ==
    /\ daemon_pc = "off"
    /\ aborted = FALSE
    /\ sup = [c \in Components |-> Unspawned]
    /\ outcomes = [c \in Components |-> <<>>]
    /\ health = [n \in HealthNames |-> NoEntry]
    /\ writer_pc = "unspawned"
    /\ blocking_write = "none"
    /\ state_file = "absent"
    /\ pid_file = None
    /\ doctor_result = "none"
    /\ unix = TRUE
    /\ kill_ok = {}
    /\ is_running = [called |-> FALSE, value |-> None]

----------------------------------------------------------------------------
(* Specifications *)

InitIdle ==
    /\ loop_pc = "idle"
    /\ iteration = 0
    /\ tool_calls = <<>>
    /\ tool_results = <<>>
    /\ events = <<>>
    /\ result = NoResult
    /\ provider_log = <<>>
    /\ actions = <<>>
    /\ now = 0
    /\ executions = <<>>
    /\ turns = 0
    /\ tool_use_total = 0
    /\ cli_pc = "recv"
    /\ status = "Idle"
    /\ key_pc = "select"
    /\ task_pc = "none"
    /\ lock = "free"
    /\ agent_rx = <<>>
    /\ input = <<>>
    /\ trim_before = None

InitSession ==
    /\ history = <<System(SystemPrompt)>>
    /\ InitIdle
    /\ InitCommands
    /\ reliability = [channel_initial_backoff_secs |-> 0, channel_max_backoff_secs |-> 0]
    /\ InitDaemonOff

(* One interactive session, CLI or TUI, with trimming and clearing *)
Init ==
    /\ mode \in {"cli", "tui"}
    /\ max_iterations \in 0..MaxIterations
    /\ max_history_turns \in 0..MaxHistoryTurns
    /\ max_actions_per_hour = MaxActions
    /\ InitSession

SessionToolCalls == {tc \in AllToolCalls : ParsesAsJson(tc.arguments)}

SessionResponses ==
    {Text(<<"Hello!">>), ProviderError}
    \cup {ToolUse(tcs, None) : tcs \in SeqsUpTo(SessionToolCalls, MaxCalls)}

SessionOutcomes == {o \in ToolOutcomes : o.success}

Next ==
    \/ cli_recv
    \/ cli_turn_end
    \/ key_enter_message(<<"m">>)
    \/ key_enter_clear(<<"/clear">>)
    \/ key_ctrl_l
    \/ clear_history
    \/ task_start
    \/ task_finish
    \/ recv_agent_event
    \/ \E resp \in SessionResponses : chat_with_tools(resp)
    \/ \E outcome \in SessionOutcomes : execute_tool_call(outcome)
    \/ extend_history
    \/ max_iterations_reached
    \/ \E resp \in SessionResponses : final_chat_with_tools(resp)

Spec == Init /\ [][Next]_vars

(* The TUI alone, with the keys of the input buffer handled one by one.   *)
(* The spawned task and the loop it runs go on until the turn has returned  *)
(* (tokio polls a spawned task that can make progress); select! takes a     *)
(* ready arm at random, so an agent event that stays ready is received.     *)
InitTui ==
    /\ mode = "tui"
    /\ max_iterations \in 0..MaxIterations
    /\ max_history_turns = MaxHistoryTurns
    /\ max_actions_per_hour = MaxActions
    /\ InitSession

TuiResponses ==
    {Text(<<"Hello!">>), ProviderError, ToolUse(<<ToolCall("call_1", "echo", "{}")>>, None)}

TurnProgress ==
    \/ task_start
    \/ \E resp \in TuiResponses : chat_with_tools(resp)
    \/ \E outcome \in SessionOutcomes : execute_tool_call(outcome)
    \/ extend_history
    \/ max_iterations_reached
    \/ \E resp \in TuiResponses : final_chat_with_tools(resp)
    \/ task_finish

NextTui ==
    \/ \E c \in TypedKeys : key_char(c)
    \/ key_enter_message(<<>>)
    \/ key_enter_clear(<<>>)
    \/ key_ctrl_l
    \/ clear_history
    \/ recv_agent_event
    \/ TurnProgress

SpecTui ==
    /\ InitTui
    /\ [][NextTui]_vars
    /\ WF_vars(TurnProgress)
    /\ WF_vars(clear_history)
    /\ SF_vars(recv_agent_event)

(* The heartbeat component under its supervisor: the state after the      *)
(* daemon has spawned it, with every outcome of collect_tasks and of a turn  *)
HeartbeatTasks == {"t1", "t2"}
CollectResults ==
    {[ok |-> FALSE, tasks |-> <<>>]}
    \cup {[ok |-> TRUE, tasks |-> tasks] : tasks \in SeqsUpTo(HeartbeatTasks, MaxTasks)}

InitHeartbeat ==
    /\ mode = "cli"
    /\ max_iterations = 0
    /\ max_history_turns = 0
    /\ max_actions_per_hour = 0
    /\ history = <<System(SystemPrompt)>>
    /\ InitIdle
    /\ stop = NotStopping
    /\ cron_jobs = <<>>
    /\ utc_now = 0
    /\ cron_call = NoCall
    /\ normalized = [expression |-> <<>>, called |-> FALSE, value |-> None]
    /\ exchange = NoExchange
    /\ endpoint = NoEndpoint
    /\ wire_arguments = NoArguments
    /\ chat_json = NoChatJson
    /\ worker \in {[NoWorker EXCEPT !.interval_minutes = m] : m \in HeartbeatIntervals}
    /\ instances = NoInstances
    /\ scheduler = NoScheduler
    /\ reliability = [channel_initial_backoff_secs |-> 1, channel_max_backoff_secs |-> 2]
    /\ daemon_pc = "off"
    /\ aborted = FALSE
    /\ sup = [c \in Components |->
                 IF c = "heartbeat"
                 THEN spawn_component_supervisor(reliability.channel_initial_backoff_secs,
                                                 reliability.channel_max_backoff_secs)
                 ELSE Unspawned]
    /\ outcomes = [c \in Components |-> <<>>]
    /\ health = [n \in HealthNames |-> NoEntry]
    /\ writer_pc = "unspawned"
    /\ blocking_write = "none"
    /\ state_file = "absent"
    /\ pid_file = None
    /\ doctor_result = "none"
    /\ unix = TRUE
    /\ kill_ok = {}
    /\ is_running = [called |-> FALSE, value |-> None]

NextHeartbeat ==
    \/ supervisor_start("heartbeat")
    \/ heartbeat_worker_start
    \/ heartbeat_tick
    \/ \E res \in CollectResults : heartbeat_collect_tasks(res)
    \/ \E ok \in BOOLEAN : heartbeat_run_task(ok)
    \/ minute_passes
    \/ sleep_returns("heartbeat")

SpecHeartbeat == InitHeartbeat /\ [][NextHeartbeat]_vars

(* One single-message run with every provider response; the clock stands  *)
(* still, so an accepted action stays in the window                        *)
InitLoop ==
    /\ mode = "one-shot"
    /\ max_iterations \in 0..MaxIterations
    /\ max_history_turns = 0
    /\ max_actions_per_hour = MaxActions
    /\ InitSession

LoopOutcomes == {o \in ToolOutcomes : o.success \/ ~o.ok}

NextLoop ==
    \/ one_shot_start
    \/ one_shot_end
    \/ \E resp \in ChatResponses : chat_with_tools(resp)
    \/ \E outcome \in LoopOutcomes : execute_tool_call(outcome)
    \/ extend_history
    \/ max_iterations_reached
    \/ \E resp \in ChatResponses : final_chat_with_tools(resp)

SpecLoop == InitLoop /\ [][NextLoop]_vars

(* One single-message run with every outcome of tool.execute and every     *)
(* provider response but the preambles                                     *)
ToolResponses ==
    {Text(<<"Hello!">>), ProviderError}
    \cup {ToolUse(tcs, None) : tcs \in SeqsUpTo(AllToolCalls, MaxCalls)}

NextTools ==
    \/ one_shot_start
    \/ one_shot_end
    \/ \E resp \in ToolResponses : chat_with_tools(resp)
    \/ \E outcome \in ToolOutcomes : execute_tool_call(outcome)
    \/ extend_history
    \/ max_iterations_reached
    \/ \E resp \in ToolResponses : final_chat_with_tools(resp)

SpecTools == InitLoop /\ [][NextTools]_vars

(* One single-message run with a running clock and every hourly budget:   *)
(* the calls differ in what execute_tool_calls does with them, not in      *)
(* their ids                                                               *)
InitRate ==
    /\ mode = "one-shot"
    /\ max_iterations \in 1..MaxIterations
    /\ max_history_turns = 0
    /\ max_actions_per_hour \in 0..MaxActions
    /\ InitSession

RateResponses ==
    {Text(<<"Hello!">>)}
    \cup {ToolUse(tcs, None) : tcs \in SeqsUpTo(AllToolCalls, MaxCalls)}

NextRate ==
    \/ one_shot_start
    \/ one_shot_end
    \/ \E resp \in RateResponses : chat_with_tools(resp)
    \/ \E outcome \in SessionOutcomes : execute_tool_call(outcome)
    \/ extend_history
    \/ max_iterations_reached
    \/ \E resp \in RateResponses : final_chat_with_tools(resp)
    \/ Tick

SpecRate == InitRate /\ [][NextRate]_vars

(* The three operations of agent/loop_.rs on one history, called in any   *)
(* order by a caller that waits for run_tool_loop to return: trim_history  *)
(* with any max_turns, a push of a User message, run_tool_loop             *)
op_trim_history(max_turns) ==
    /\ loop_pc = "idle"
    /\ history' = trim_history(history, max_turns)
    /\ UNCHANGED <<config_vars, outside_session, loop_vars, security_vars, now, turns, tool_use_total,
                   cli_pc, tui_vars>>

op_push_user ==
    /\ loop_pc = "idle"
    /\ turns < MaxTurns
    /\ history' = push(history, User(UserText(turns + 1)))
    /\ turns' = turns + 1
    /\ UNCHANGED <<config_vars, outside_session, loop_vars, security_vars, now, tool_use_total, cli_pc,
                   tui_vars>>

op_run_tool_loop ==
    /\ loop_pc = "idle"
    /\ Len(history) < MaxHistoryLen
    /\ loop_pc' = "chat"
    /\ iteration' = 0
    /\ tool_calls' = <<>>
    /\ tool_results' = <<>>
    /\ events' = <<>>
    /\ result' = NoResult
    /\ provider_log' = <<>>
    /\ UNCHANGED <<config_vars, outside_session, history, security_vars, now, turns, tool_use_total,
                   cli_pc, tui_vars>>

op_returned ==
    /\ loop_pc = "returned"
    /\ loop_pc' = "idle"
    /\ UNCHANGED <<config_vars, outside_session, history, iteration, tool_calls, tool_results, events, result,
                   provider_log, security_vars, now, turns, tool_use_total, cli_pc,
                   tui_vars>>

InitOps ==
    /\ mode = "cli"
    /\ max_iterations \in 0..MaxIterations
    /\ max_history_turns = 0
    /\ max_actions_per_hour = 1
    /\ InitSession

NextOps ==
    \/ \E max_turns \in 0..MaxHistoryTurns : op_trim_history(max_turns)
    \/ op_push_user
    \/ op_run_tool_loop
    \/ op_returned
    \/ \E resp \in SessionResponses : chat_with_tools(resp)
    \/ \E outcome \in SessionOutcomes : execute_tool_call(outcome)
    \/ extend_history
    \/ max_iterations_reached
    \/ \E resp \in SessionResponses : final_chat_with_tools(resp)

SpecOps == InitOps /\ [][NextOps]_vars

(* trim_history alone, on any history, the empty one included *)
TrimMessages ==
    { System(SystemPrompt), User(UserText(1)), User(UserText(2)),
      Assistant(Some(<<"Hello!">>), None), Tool("call_1", <<"output">>) }

TrimHistories == SeqsUpTo(TrimMessages, MaxTrimLen + 1)

trim_history_call ==
    /\ trim_before = None
    /\ trim_before' = Some(history)
    /\ history' = trim_history(history, max_history_turns)
    /\ UNCHANGED <<mode, max_iterations, max_history_turns, max_actions_per_hour,
                   loop_vars, security_vars, now, turns, tool_use_total, cli_pc, tui_vars,
                   daemon_vars, command_vars>>

InitTrim ==
    /\ mode = "cli"
    /\ max_iterations = 0
    /\ max_history_turns \in 0..MaxTrimTurns
    /\ max_actions_per_hour = 0
    /\ history \in TrimHistories
    /\ InitIdle
    /\ InitCommands
    /\ reliability = [channel_initial_backoff_secs |-> 0, channel_max_backoff_secs |-> 0]
    /\ InitDaemonOff

NextTrim == trim_history_call

SpecTrim == InitTrim /\ [][NextTrim]_vars

(* One supervisor alone, as the tests of daemon/mod.rs spawn it, with any  *)
(* back-off settings and any sequence of run results                       *)
BackoffValues == 0..MaxBackoff \cup {u64_MAX}

InitSupervisor ==
    /\ mode = "cli"
    /\ max_iterations = 0
    /\ max_history_turns = 0
    /\ max_actions_per_hour = 0
    /\ history = <<System(SystemPrompt)>>
    /\ InitIdle
    /\ InitCommands
    /\ InitDaemonOff
    /\ reliability \in [channel_initial_backoff_secs : BackoffValues,
                        channel_max_backoff_secs : BackoffValues]

NextSupervisor ==
    \/ \E c \in Components : test_spawn(c)
    \/ \E c \in Components : supervisor_start(c)
    \/ \E c \in Components, res \in {"Ok", "Err"} : component_run_returns(c, res)
    \/ \E c \in Components : sleep_returns(c)
    \/ \E ok \in BOOLEAN : heartbeat_task(ok)
    \/ test_abort
    \/ \E c \in Components : supervisor_cancelled(c)

SpecSupervisor == InitSupervisor /\ [][NextSupervisor]_vars

(* The daemon with its supervisors and its state writer, an interrupt at    *)
(* any moment after the start, and doctor reading the state file            *)
InitDaemon ==
    /\ mode = "cli"
    /\ max_iterations = 0
    /\ max_history_turns = 0
    /\ max_actions_per_hour = 0
    /\ history = <<System(SystemPrompt)>>
    /\ InitIdle
    /\ InitCommands
    /\ InitDaemonOff
    /\ reliability = [channel_initial_backoff_secs |-> 1, channel_max_backoff_secs |-> 2]

NextDaemon ==
    \/ daemon_start
    \/ \E c \in Components : supervisor_start(c)
    \/ \E c \in Components, res \in {"Ok", "Err"} : component_run_returns(c, res)
    \/ \E c \in Components : sleep_returns(c)
    \/ \E ok \in BOOLEAN : heartbeat_task(ok)
    \/ \E c \in Components : supervisor_cancelled(c)
    \/ state_writer_tick
    \/ fs_write_create
    \/ fs_write_all
    \/ blocking_job_dropped
    \/ state_writer_cancelled
    \/ interrupt
    \/ daemon_returns
    \/ doctor_run

SpecDaemon == InitDaemon /\ [][NextDaemon]_vars

(* is_daemon_running alone: any PID file, any build, any set of live PIDs *)
PidsProbed == {0, 7, 77}

InitPid ==
    /\ mode = "cli"
    /\ max_iterations = 0
    /\ max_history_turns = 0
    /\ max_actions_per_hour = 0
    /\ history = <<System(SystemPrompt)>>
    /\ InitIdle
    /\ InitCommands
    /\ reliability = [channel_initial_backoff_secs |-> 0, channel_max_backoff_secs |-> 0]
    /\ daemon_pc = "off"
    /\ aborted = FALSE
    /\ sup = [c \in Components |-> Unspawned]
    /\ outcomes = [c \in Components |-> <<>>]
    /\ health = [n \in HealthNames |-> NoEntry]
    /\ writer_pc = "unspawned"
    /\ blocking_write = "none"
    /\ state_file = "absent"
    /\ doctor_result = "none"
    /\ pid_file \in {None} \cup {Some(t) : t \in SeqsUpTo(PidChars, MaxPidLen)}
    /\ unix \in BOOLEAN
    /\ kill_ok \in SUBSET PidsProbed
    /\ is_running = [called |-> FALSE, value |-> None]

NextPid == is_daemon_running

SpecPid == InitPid /\ [][NextPid]_vars

(* stop_daemon alone: any build, a PID file of any kind, any live PIDs *)
StopPidFiles == {None, Some(<<"7">>), Some(<<"7", "7", "\n">>), Some(<<"x">>)}
StopPids == {7, 77}

InitStop ==
    /\ mode = "cli"
    /\ max_iterations = 0
    /\ max_history_turns = 0
    /\ max_actions_per_hour = 0
    /\ history = <<System(SystemPrompt)>>
    /\ InitIdle
    /\ InitCommands
    /\ reliability = [channel_initial_backoff_secs |-> 0, channel_max_backoff_secs |-> 0]
    /\ daemon_pc = "off"
    /\ aborted = FALSE
    /\ sup = [c \in Components |-> Unspawned]
    /\ outcomes = [c \in Components |-> <<>>]
    /\ health = [n \in HealthNames |-> NoEntry]
    /\ writer_pc = "unspawned"
    /\ blocking_write = "none"
    /\ state_file = "absent"
    /\ doctor_result = "none"
    /\ pid_file \in StopPidFiles
    /\ unix \in BOOLEAN
    /\ kill_ok \in SUBSET StopPids
    /\ is_running = [called |-> FALSE, value |-> None]

NextStop ==
    \/ stop_daemon_call
    \/ send_sigterm
    \/ poll
    \/ send_sigkill
    \/ process_exits

SpecStop == InitStop /\ [][NextStop]_vars

(* A daemon with its state writer, stopped by Ctrl+C or by stop_daemon at   *)
(* any moment; no task of a process that is gone takes a step               *)
InitShutdown ==
    /\ mode = "cli"
    /\ max_iterations = 0
    /\ max_history_turns = 0
    /\ max_actions_per_hour = 0
    /\ history = <<System(SystemPrompt)>>
    /\ InitIdle
    /\ InitCommands
    /\ reliability = [channel_initial_backoff_secs |-> 1, channel_max_backoff_secs |-> 2]
    /\ daemon_pc = "off"
    /\ aborted = FALSE
    /\ sup = [c \in Components |-> Unspawned]
    /\ outcomes = [c \in Components |-> <<>>]
    /\ health = [n \in HealthNames |-> NoEntry]
    /\ writer_pc = "unspawned"
    /\ blocking_write = "none"
    /\ state_file = "absent"
    /\ doctor_result = "none"
    /\ pid_file = None
    /\ unix \in BOOLEAN
    /\ kill_ok = {DaemonPid}
    /\ is_running = [called |-> FALSE, value |-> None]

NextShutdown ==
    \/ alive /\ daemon_start
    \/ alive /\ state_writer_tick
    \/ alive /\ fs_write_create
    \/ alive /\ fs_write_all
    \/ alive /\ blocking_job_dropped
    \/ alive /\ state_writer_cancelled
    \/ alive /\ interrupt
    \/ \E c \in Components : alive /\ supervisor_cancelled(c)
    \/ alive /\ daemon_returns
    \/ process_returns
    \/ stop_daemon_call
    \/ send_sigterm
    \/ poll
    \/ send_sigkill
    \/ sigterm_terminates

SpecShutdown == InitShutdown /\ [][NextShutdown]_vars

(* Daemons started on one config directory, in the background or with      *)
(* --foreground, at any moments, and their shutdowns                        *)
InitInstances ==
    /\ mode = "cli"
    /\ max_iterations = 0
    /\ max_history_turns = 0
    /\ max_actions_per_hour = 0
    /\ history = <<System(SystemPrompt)>>
    /\ InitIdle
    /\ InitCommands
    /\ reliability = [channel_initial_backoff_secs |-> 0, channel_max_backoff_secs |-> 0]
    /\ daemon_pc = "off"
    /\ aborted = FALSE
    /\ sup = [c \in Components |-> Unspawned]
    /\ outcomes = [c \in Components |-> <<>>]
    /\ health = [n \in HealthNames |-> NoEntry]
    /\ writer_pc = "unspawned"
    /\ blocking_write = "none"
    /\ state_file = "absent"
    /\ doctor_result = "none"
    /\ pid_file = None
    /\ unix \in BOOLEAN
    /\ kill_ok = {}
    /\ is_running = [called |-> FALSE, value |-> None]

NextInstances ==
    \/ \E p \in InstancePids : start_background(p)
    \/ \E p \in InstancePids : start_foreground(p)
    \/ \E p \in InstancePids : run_write_pid_file(p)
    \/ \E p \in InstancePids : run_shutdown(p)

SpecInstances == InitInstances /\ [][NextInstances]_vars

(* The job table under any interleaving of the calls of cron/mod.rs *)
Star == <<"*">>
RECURSIVE Joined(_)
Joined(fields) ==
    IF Len(fields) = 1 THEN fields[1] ELSE fields[1] \o <<" ">> \o Joined(Tail(fields))

EverySecond == Joined(<<Star, Star, Star, Star, Star, Star>>)
EveryMinute == Joined(<<Star, Star, Star, Star, Star>>)
In1970 == Joined(<<Star, Star, Star, Star, Star, Star, (<<"1", "9", "7", "0">>)>>)
FourFields == Joined(<<Star, Star, Star, Star>>)
Unparsable == Joined(<<(<<"x">>), Star, Star, Star, Star, Star>>)
CronExpressions == {EverySecond, EveryMinute, In1970, FourFields}
AnyExpressions == CronExpressions \cup {Unparsable}

Instants == 0..(2 * MaxClock + 1)
ListedJobs == {CronJob(cron_jobs[i]) : i \in 1..Len(cron_jobs)}

InitCron ==
    /\ mode = "cli"
    /\ max_iterations = 0
    /\ max_history_turns = 0
    /\ max_actions_per_hour = 0
    /\ history = <<System(SystemPrompt)>>
    /\ InitIdle
    /\ InitCommands
    /\ reliability = [channel_initial_backoff_secs |-> 0, channel_max_backoff_secs |-> 0]
    /\ InitDaemonOff

NextCron ==
    \/ cron_call.uuids < MaxAdds
           /\ \E expression \in CronExpressions : add_job(expression, "echo")
    \/ \E id \in 1..MaxAdds : remove_job(id)
    \/ \E t \in Instants : due_jobs(t)
    \/ \E job \in ListedJobs, success \in BOOLEAN : reschedule_after_run(job, success, "out")
    \/ utc_tick

SpecCron == InitCron /\ [][NextCron]_vars

(* The calls of cron/mod.rs with an expression that does not parse among   *)
(* the inputs                                                               *)
NextCronErrors ==
    \/ cron_call.uuids < MaxAdds
           /\ \E expression \in AnyExpressions : add_job(expression, "echo")
    \/ \E id \in 1..MaxAdds : remove_job(id)
    \/ \E t \in Instants : due_jobs(t)
    \/ \E job \in ListedJobs, success \in BOOLEAN : reschedule_after_run(job, success, "out")
    \/ utc_tick

SpecCronErrors == InitCron /\ [][NextCronErrors]_vars

(* The scheduler's tick loop while jobs are added and removed *)
NextScheduler ==
    \/ cron_call.uuids < MaxJobs
           /\ \E expression \in AnyExpressions : add_job(expression, "echo")
    \/ \E id \in 1..MaxJobs : remove_job(id)
    \/ scheduler_tick
    \/ \E success \in BOOLEAN : scheduler_job_ran(success)
    \/ utc_tick

SpecScheduler == InitCron /\ [][NextScheduler]_vars

(* normalize_expression and add_job on any text of stars and spaces *)
InitNormalize ==
    /\ mode = "cli"
    /\ max_iterations = 0
    /\ max_history_turns = 0
    /\ max_actions_per_hour = 0
    /\ history = <<System(SystemPrompt)>>
    /\ InitIdle
    /\ stop = NotStopping
    /\ cron_jobs = <<>>
    /\ utc_now = 0
    /\ cron_call = NoCall
    /\ normalized \in [expression : SeqsUpTo({"*", " "}, MaxExprLen), called : {FALSE},
                        value : {None}]
    /\ exchange = NoExchange
    /\ endpoint = NoEndpoint
    /\ wire_arguments = NoArguments
    /\ chat_json = NoChatJson
    /\ worker = NoWorker
    /\ instances = NoInstances
    /\ scheduler = NoScheduler
    /\ reliability = [channel_initial_backoff_secs |-> 0, channel_max_backoff_secs |-> 0]
    /\ InitDaemonOff

NextNormalize ==
    \/ normalize_expression_call
    \/ cron_call.op = "none" /\ add_job(normalized.expression, "echo")

SpecNormalize == InitNormalize /\ [][NextNormalize]_vars

(* One call of the provider against any answers of the server *)
WireToolCalls ==
    {WireToolCall("call_1", "echo", <<"{}">>), WireToolCall("call_2", "shell", <<"not valid json">>)}
ResponseMessages ==
    [content : {None, Some(<<>>), Some(<<"Let me check.">>)},
     tool_calls : {None} \cup {Some(tcs) : tcs \in SeqsUpTo(WireToolCalls, MaxWireCalls)}]
WireChoices ==
    {<<>>} \cup {<<m>> : m \in ResponseMessages}
    \cup {<<m, [content |-> Some(<<"second choice">>), tool_calls |-> None]>> :
             m \in ResponseMessages}

InitProvider ==
    /\ mode = "cli"
    /\ max_iterations = 0
    /\ max_history_turns = 0
    /\ max_actions_per_hour = 0
    /\ history = <<System(SystemPrompt)>>
    /\ InitIdle
    /\ stop = NotStopping
    /\ cron_jobs = <<>>
    /\ utc_now = 0
    /\ cron_call = NoCall
    /\ normalized = [expression |-> <<>>, called |-> FALSE, value |-> None]
    /\ endpoint = NoEndpoint
    /\ wire_arguments = NoArguments
    /\ chat_json = NoChatJson
    /\ worker = NoWorker
    /\ instances = NoInstances
    /\ scheduler = NoScheduler
    /\ exchange \in [api_key : BOOLEAN, status : {"200", "404", "500", "send failed"},
                      choices : WireChoices,
                      responses_status : {"200", "404", "send failed"},
                      responses_text : {None, Some(<<"from responses">>)},
                      method : {"none"}, requests : {<<>>}, result : {NotReturned}]
    /\ reliability = [channel_initial_backoff_secs |-> 0, channel_max_backoff_secs |-> 0]
    /\ InitDaemonOff

NextProvider ==
    \/ provider_chat_with_system
    \/ provider_chat_with_tools

SpecProvider == InitProvider /\ [][NextProvider]_vars

(* The endpoint of a provider built from any URL *)
UrlPieces == {"https://api.example.com", "/", "v1", ChatCompletions, "?beta"}

InitEndpoint ==
    /\ mode = "cli"
    /\ max_iterations = 0
    /\ max_history_turns = 0
    /\ max_actions_per_hour = 0
    /\ history = <<System(SystemPrompt)>>
    /\ InitIdle
    /\ stop = NotStopping
    /\ cron_jobs = <<>>
    /\ utc_now = 0
    /\ cron_call = NoCall
    /\ normalized = [expression |-> <<>>, called |-> FALSE, value |-> None]
    /\ exchange = NoExchange
    /\ endpoint \in [configured : SeqsUpTo(UrlPieces, MaxUrlLen), base_url : {None},
                      url : {None}]
    /\ wire_arguments = NoArguments
    /\ chat_json = NoChatJson
    /\ worker = NoWorker
    /\ instances = NoInstances
    /\ scheduler = NoScheduler
    /\ reliability = [channel_initial_backoff_secs |-> 0, channel_max_backoff_secs |-> 0]
    /\ InitDaemonOff

NextEndpoint ==
    \/ provider_new
    \/ chat_completions_url_call

SpecEndpoint == InitEndpoint /\ [][NextEndpoint]_vars

(* deserialize_arguments on any of the values: strings, null, objects of   *)
(* leaves, and objects that hold such an object                             *)
JsonLeaves == {JNull} \cup {JString(chars) : chars \in SeqsUpTo({"a", "\"", "\\"}, MaxStringLen)}
ObjectsOver(values) ==
    {JObject(fields) :
        fields \in UNION {[keys -> values] :
                             keys \in SUBSET {JsonKeys[k] : k \in 1..Len(JsonKeys)}}}
FlatObjects == ObjectsOver(JsonLeaves)
NestedObjects ==
    {JObject([x \in {JsonKeys[1]} |-> inner]) : inner \in FlatObjects}
    \cup {JObject([x \in {JsonKeys[1], JsonKeys[2]} |->
                     IF x = JsonKeys[1] THEN JString(<<"\"">>) ELSE inner]) :
             inner \in FlatObjects}
ArgumentValues == JsonLeaves \cup FlatObjects \cup NestedObjects

InitArguments ==
    /\ mode = "cli"
    /\ max_iterations = 0
    /\ max_history_turns = 0
    /\ max_actions_per_hour = 0
    /\ history = <<System(SystemPrompt)>>
    /\ InitIdle
    /\ stop = NotStopping
    /\ cron_jobs = <<>>
    /\ utc_now = 0
    /\ cron_call = NoCall
    /\ normalized = [expression |-> <<>>, called |-> FALSE, value |-> None]
    /\ exchange = NoExchange
    /\ endpoint = NoEndpoint
    /\ wire_arguments \in [value : ArgumentValues, called : {FALSE}, arguments : {None}]
    /\ chat_json = NoChatJson
    /\ worker = NoWorker
    /\ instances = NoInstances
    /\ scheduler = NoScheduler
    /\ reliability = [channel_initial_backoff_secs |-> 0, channel_max_backoff_secs |-> 0]
    /\ InitDaemonOff

NextArguments == deserialize_arguments_call

SpecArguments == InitArguments /\ [][NextArguments]_vars

(* A ChatMessage of any variant is written and read back *)
JsonTexts == SeqsUpTo({"a", "\"", "\\"}, MaxStringLen)
SerdeToolCalls ==
    {ToolCall(<<"call_1">>, <<"shell">>, arguments) :
        arguments \in {<<"{", "}">>, <<"{", "\"", "a", "\"", ":", "\"", "a", "\"", "}">>}}
SerdeMessages ==
    {System(c) : c \in JsonTexts}
    \cup {User(c) : c \in JsonTexts}
    \cup {Tool(<<"call_1">>, c) : c \in JsonTexts}
    \cup {Assistant(c, tcs) :
             c \in {None} \cup {Some(t) : t \in JsonTexts},
             tcs \in {None} \cup {Some(q) : q \in SeqsUpTo(SerdeToolCalls, MaxCalls)}}

InitSerde ==
    /\ mode = "cli"
    /\ max_iterations = 0
    /\ max_history_turns = 0
    /\ max_actions_per_hour = 0
    /\ history = <<System(SystemPrompt)>>
    /\ InitIdle
    /\ stop = NotStopping
    /\ cron_jobs = <<>>
    /\ utc_now = 0
    /\ cron_call = NoCall
    /\ normalized = [expression |-> <<>>, called |-> FALSE, value |-> None]
    /\ exchange = NoExchange
    /\ endpoint = NoEndpoint
    /\ wire_arguments = NoArguments
    /\ chat_json \in [message : SerdeMessages, json : {None}, read : {FALSE}, parsed : {None}]
    /\ worker = NoWorker
    /\ instances = NoInstances
    /\ scheduler = NoScheduler
    /\ reliability = [channel_initial_backoff_secs |-> 0, channel_max_backoff_secs |-> 0]
    /\ InitDaemonOff

NextSerde == serialize_message \/ deserialize_message

SpecSerde == InitSerde /\ [][NextSerde]_vars

(* The same table while jobs are added, listed, removed and rescheduled *)
NextCronTable ==
    \/ cron_call.uuids < MaxJobs
           /\ \E expression \in CronExpressions : add_job(expression, "echo")
    \/ list_jobs
    \/ \E id \in 1..MaxJobs : remove_job(id)
    \/ \E job \in ListedJobs : reschedule_after_run(job, TRUE, "out")
    \/ utc_tick

SpecCronTable == InitCron /\ [][NextCronTable]_vars

----------------------------------------------------------------------------
(* Properties of the tool-calling loop *)

(* The call of the current pass of execute_tool_calls, when there is one *)
CallPending == loop_pc = "tools" /\ Len(tool_results) < Len(tool_calls)
PendingCall == tool_calls[Len(tool_results) + 1]
CallProcessed == CallPending /\ tool_results' # tool_results
ActionsLeft(acts, t, max) ==
    IF Len(RecentActions(acts, t)) < max THEN max - Len(RecentActions(acts, t)) ELSE 0

(* C1: one run_tool_loop call issues at most max_iterations + 1              *)
(* chat_with_tools calls, and the (max_iterations + 1)-th call is issued      *)
(* only when each of the first max_iterations calls returned ToolUse.         *)
C1_IterationBound ==
    /\ Len(provider_log) <= max_iterations + 1
    /\ Len(provider_log) = max_iterations + 1 =>
           \A i \in 1..max_iterations : provider_log[i].kind = "ToolUse"

C1_Witness ==
    /\ max_iterations = MaxIterations
    /\ Len(provider_log) = max_iterations + 1
    /\ \A i \in 1..max_iterations : Len(provider_log[i].tool_calls) = MaxCalls
    /\ loop_pc = "returned"

(* C2: for a ToolUse response with calls c1..cn, execute_tool_calls yields    *)
(* exactly n Tool messages, the i-th with tool_call_id = ci.id, and            *)
(* run_tool_loop appends them to history directly after the Assistant          *)
(* message bearing those calls, in that order, whatever the calls are.         *)
ClusterAt(h, p) ==
    LET calls == h[p].tool_calls[1] IN
    /\ p + Len(calls) <= Len(h)
    /\ \A i \in 1..Len(calls) :
           /\ h[p + i].role = "Tool"
           /\ h[p + i].tool_call_id = calls[i].id
    /\ p + Len(calls) < Len(h) => h[p + Len(calls) + 1].role # "Tool"

C2_ToolMessagesInCallOrder ==
    /\ loop_pc = "tools" =>
           /\ Len(tool_results) <= Len(tool_calls)
           /\ Last(history) = Assistant(Last(provider_log).text, Some(tool_calls))
           /\ \A i \in 1..Len(tool_results) :
                  /\ tool_results[i].role = "Tool"
                  /\ tool_results[i].tool_call_id = tool_calls[i].id
    /\ \A p \in 1..Len(history) :
           (history[p].role = "Assistant" /\ IsSome(history[p].tool_calls)) =>
               \/ loop_pc = "tools" /\ p = Len(history)
               \/ ClusterAt(history, p)

C2_Witness ==
    \E p \in 1..Len(history) :
        /\ history[p].role = "Assistant"
        /\ IsSome(history[p].tool_calls)
        /\ Len(history[p].tool_calls[1]) = 2
        /\ history[p].tool_calls[1][1].id # history[p].tool_calls[1][2].id
        /\ Len(history) >= p + 2
        /\ history[p + 1] = Tool("call_2", ParseErrorText)
        /\ history[p + 2] = Tool("call_1", RateLimitText)

(* C3: in every history reachable by trimming, appending user messages and   *)
(* run_tool_loop, every Tool message is preceded by an Assistant message      *)
(* whose tool_calls contain a call with its tool_call_id.                     *)
C3_ToolResultPairing ==
    \A j \in 1..Len(history) :
        history[j].role = "Tool" =>
            \E p \in 1..(j - 1) :
                /\ history[p].role = "Assistant"
                /\ IsSome(history[p].tool_calls)
                /\ \E i \in 1..Len(history[p].tool_calls[1]) :
                       history[p].tool_calls[1][i].id = history[j].tool_call_id

C3_Witness ==
    /\ loop_pc = "idle"
    /\ Len(history) >= 2
    /\ history[2] = User(UserText(2))
    /\ \E j \in 1..Len(history) : history[j].role = "Tool"
    /\ \E j \in 1..Len(history) : history[j] = User(FinalPrompt)

(* C4: in every history of an interactive session index 0 holds the System   *)
(* message and no other index holds a System message.                         *)
C4_HistoryShape ==
    /\ Len(history) >= 1
    /\ history[1].role = "System"
    /\ \A i \in 2..Len(history) : history[i].role # "System"

C4_Witness ==
    /\ max_history_turns = 1
    /\ turns = 3
    /\ user_count(history) = 2
    /\ Len(history) > 3
    /\ history[2] = User(UserText(2))

(* C5: when chat_with_tools returns Text(t) in a loop iteration,             *)
(* run_tool_loop appends exactly one Assistant{Some(t), None}, returns t and  *)
(* makes no further provider call or tool execution in that turn; the         *)
(* messages already in the history stay in place.                             *)
C5_TextStep ==
    (loop_pc = "chat" /\ provider_log' # provider_log /\ Last(provider_log').kind = "Text") =>
        LET t == Last(provider_log').text[1] IN
        /\ history' = Append(history, Assistant(Some(t), None))
        /\ result' = Returned(TRUE, t)
        /\ loop_pc' = "returned"

C5_NothingAfterText ==
    (provider_log # <<>> /\ Last(provider_log).kind = "Text") =>
        \/ provider_log' = provider_log /\ executions' = executions /\ actions' = actions
        \/ turns' = turns + 1 /\ loop_pc = "idle"

C5_EarlierMessagesStay == loop_pc # "idle" => IsPrefix(history, history')

C6_FinalAnswer(entry) ==
    IF entry.kind = "Text" THEN entry.text[1]
    ELSE IF IsSome(entry.text) THEN entry.text[1]
    ELSE FallbackText

C6_BudgetExhaustedStep ==
    (loop_pc = "chat" /\ iteration >= max_iterations) =>
        /\ history' = Append(history, User(FinalPrompt))
        /\ provider_log' = provider_log
        /\ loop_pc' = "final"

C6_FinalCallStep ==
    (loop_pc = "final") =>
        /\ Len(provider_log') = Len(provider_log) + 1
        /\ ~Last(provider_log').tools_enabled
        /\ loop_pc' = "returned"
        /\ executions' = executions
        /\ actions' = actions
        /\ Last(provider_log').kind # "Err" =>
               /\ history' = Append(history, Assistant(Some(C6_FinalAnswer(Last(provider_log'))), None))
               /\ result' = Returned(TRUE, C6_FinalAnswer(Last(provider_log')))

C6_OnlyAfterToolUse ==
    (loop_pc' = "final" /\ loop_pc # "final") =>
        /\ Len(provider_log) = max_iterations
        /\ \A i \in 1..max_iterations : provider_log[i].kind = "ToolUse" /\ provider_log[i].tools_enabled

C6_ForcedFinalCall ==
    [][C6_BudgetExhaustedStep /\ C6_FinalCallStep /\ C6_OnlyAfterToolUse]_vars

C6_Witness ==
    /\ loop_pc = "returned"
    /\ max_iterations = 1
    /\ Len(provider_log) = 2
    /\ provider_log[2].kind = "ToolUse"
    /\ provider_log[2].text = Some(<<"preamble">>)
    /\ Len(provider_log[2].tool_calls) = 2
    /\ result = Returned(TRUE, <<"preamble">>)
    /\ Last(history) = Assistant(Some(<<"preamble">>), None)

(* C7: run_tool_loop never returns an error because of a tool call: an       *)
(* unknown tool, a rate-limit denial, unparseable arguments, success=false    *)
(* and a tool error each yield one Tool message with error text, and the      *)
(* loop goes on to the next provider call.                                    *)
C7_ErrorTexts ==
    {UnknownToolText("nonexistent_tool"), RateLimitText, ParseErrorText}

C7_ToolCallStep ==
    CallProcessed =>
        /\ Len(tool_results') = Len(tool_results) + 1
        /\ Last(tool_results').role = "Tool"
        /\ LET text == Last(tool_results').content[1] IN
           /\ ~find_tool(PendingCall.name) => text = UnknownToolText(PendingCall.name)
           /\ (find_tool(PendingCall.name)
                 /\ ~record_action_allowed(actions, now, max_actions_per_hour)) =>
                  text = RateLimitText
           /\ (find_tool(PendingCall.name)
                 /\ record_action_allowed(actions, now, max_actions_per_hour)
                 /\ ~ParsesAsJson(PendingCall.arguments)) => text = ParseErrorText
           /\ \/ text \in C7_ErrorTexts
              \/ StartsWith(text, "Error:")
              \/ text = <<"output">>
        /\ loop_pc' = "tools"
        /\ result' = result

C7_LoopGoesOn ==
    /\ loop_pc = "tools" => loop_pc' \in {"tools", "chat"}
    /\ (loop_pc = "tools" /\ loop_pc' = "chat") =>
           /\ history' = history \o tool_results
           /\ Len(tool_results) = Len(tool_calls)
    /\ (loop_pc' = "returned" /\ loop_pc # "returned" /\ result'.kind = "Err") =>
           /\ provider_log' # provider_log
           /\ Last(provider_log').kind = "Err"

C7_ToolErrorsNeverEndTheTurn == [][C7_ToolCallStep /\ C7_LoopGoesOn]_vars

C7_Witness ==
    /\ loop_pc = "returned"
    /\ result.kind = "Ok"
    /\ Last(provider_log).kind = "Text"
    /\ \E j \in 1..Len(history) : history[j] = Tool("call_1", <<"Error:", "crashed">>)
    /\ \E j \in 1..Len(history) : history[j] = Tool("call_1", RateLimitText)

(* C8: with max_actions_per_hour = m at most m tool executions happen        *)
(* within one hour; once m actions have been accepted in the hour, a call to  *)
(* a registered tool yields a rate-limit Tool message and no execute.         *)
C8_AtMostMExecutions ==
    Len(RecentActions(executions, now)) <= max_actions_per_hour

C8_DeniedStep ==
    (CallProcessed
       /\ find_tool(PendingCall.name)
       /\ Len(RecentActions(actions, now)) >= max_actions_per_hour) =>
        /\ tool_results' = Append(tool_results, Tool(PendingCall.id, RateLimitText))
        /\ executions' = executions

C8_RateLimit == [](C8_AtMostMExecutions) /\ [][C8_DeniedStep]_vars

C8_Witness ==
    /\ max_actions_per_hour = MaxActions
    /\ loop_pc = "tools"
    /\ Len(RecentActions(executions, now)) = max_actions_per_hour
    /\ tool_results = <<Tool("call_1", <<"output">>), Tool("call_1", RateLimitText)>>

(* C9: a call whose name matches no registered tool yields a Tool message    *)
(* with an unknown-tool error and does not call record_action: the number of  *)
(* actions still allowed in the hour is the same before and after.            *)
C9_UnknownToolStep ==
    (CallProcessed /\ PendingCall.name \notin RegisteredTools) =>
        /\ tool_results' = Append(tool_results, Tool(PendingCall.id, UnknownToolText(PendingCall.name)))
        /\ actions' = actions
        /\ executions' = executions
        /\ ActionsLeft(actions', now', max_actions_per_hour)
             = ActionsLeft(actions, now, max_actions_per_hour)

C9_UnknownToolKeepsBudget == [][C9_UnknownToolStep]_vars

C9_Witness ==
    /\ max_actions_per_hour = 1
    /\ loop_pc = "tools"
    /\ ActionsLeft(actions, now, max_actions_per_hour) = 0
    /\ Len(tool_results) = 2
    /\ tool_results[1] = Tool("call_3", UnknownToolText("nonexistent_tool"))
    /\ tool_results[2] = Tool("call_1", <<"output">>)

(* C10: at most one run_tool_loop works on a history at a time: in the TUI   *)
(* a turn (trim, append, loop) runs while the task holds the history mutex    *)
(* and a clear cannot interleave with it; in the CLI the next turn starts     *)
(* only after the previous run_tool_loop has returned.                        *)
TurnInProgress == loop_pc # "idle"

C10_TurnHoldsMutex ==
    (mode = "tui" /\ TurnInProgress) => (lock = "task" /\ task_pc = "running")

C10_ClearStep ==
    (key_pc = "clear" /\ key_pc' = "select") =>
        /\ ~TurnInProgress
        /\ history' = <<System(SystemPrompt)>>

C10_TurnStartStep ==
    (turns' # turns) =>
        /\ ~TurnInProgress
        /\ loop_pc' = "chat"
        /\ mode = "tui" => (lock = "free" /\ lock' = "task")

C10_HistoryChangeStep ==
    (history' # history /\ mode = "tui") =>
        \/ lock = "task" /\ lock' = "task"
        \/ turns' # turns
        \/ key_pc = "clear" /\ lock = "free"

C10_OneLoopPerHistory ==
    /\ [](C10_TurnHoldsMutex)
    /\ [][C10_ClearStep /\ C10_TurnStartStep /\ C10_HistoryChangeStep]_vars

C10_Witness ==
    /\ mode = "tui"
    /\ key_pc = "clear"
    /\ loop_pc = "tools"
    /\ lock = "task"
    /\ turns = 2

(* C11: in interactive mode (CLI loop and TUI), when a turn's run_tool_loop  *)
(* returns an error, the error is reported and the session goes on: the next  *)
(* user input is still accepted and processed as a new turn on the same       *)
(* history.                                                                   *)
TurnEndsWithError ==
    /\ mode \in {"cli", "tui"}
    /\ loop_pc = "returned"
    /\ result.kind = "Err"
    /\ loop_pc' = "idle"

C11_ErrorStep ==
    TurnEndsWithError =>
        /\ history' = history
        /\ mode = "cli" => cli_pc' = "recv"
        /\ mode = "tui" => (Last(agent_rx') = "AgentError" /\ lock' = "free")

C11_ErrorEventStep ==
    (mode = "tui" /\ agent_rx # <<>> /\ agent_rx' = Tail(agent_rx)) => status' = "Idle"

C11_SessionContinuesAfterError == [][C11_ErrorStep /\ C11_ErrorEventStep]_vars

(* C12: for every history h with h[0] = System and U User messages and every *)
(* n with 0 < n < U, trim_history(h, n) leaves exactly h[0] followed by the   *)
(* suffix of h that starts at the (U - n + 1)-th User message: the result has *)
(* exactly n User messages, the last n of h, unchanged and in order; for      *)
(* every n the result never has more User messages than h.                    *)
UserIndices(h) == {i \in 1..Len(h) : h[i].role = "User"}

(* The position of the k-th User message of h: k - 1 User messages lie before it *)
KthUserIndex(h, k) ==
    CHOOSE i \in UserIndices(h) : Cardinality({j \in UserIndices(h) : j < i}) = k - 1

UsersOf(h) == SelectSeq(h, LAMBDA m : m.role = "User")

C12_TrimKeepsLastTurns ==
    IsSome(trim_before) =>
        LET h == trim_before[1]
            n == max_history_turns
            U == Cardinality(UserIndices(h))
        IN /\ Cardinality(UserIndices(history)) <= U
           /\ (Len(h) >= 1 /\ h[1].role = "System" /\ 0 < n /\ n < U) =>
                  /\ history = <<h[1]>> \o SubSeq(h, KthUserIndex(h, U - n + 1), Len(h))
                  /\ Cardinality(UserIndices(history)) = n
                  /\ UsersOf(history) = SubSeq(UsersOf(h), U - n + 1, U)

C12_Witness ==
    /\ IsSome(trim_before)
    /\ max_history_turns = 2
    /\ trim_before[1] = <<System(SystemPrompt), User(UserText(1)), Assistant(Some(<<"Hello!">>), None),
                          User(UserText(2)), User(UserText(1))>>
    /\ history = <<System(SystemPrompt), User(UserText(2)), User(UserText(1))>>

(* C13: trim_history(h, 0) leaves h unchanged for every history h, and       *)
(* trim_history(h, n) leaves h unchanged whenever the number of User messages *)
(* in h is at most n.                                                         *)
C13_TrimIdentity ==
    (/\ IsSome(trim_before)
     /\ \/ max_history_turns = 0
        \/ Cardinality(UserIndices(trim_before[1])) <= max_history_turns) =>
        history = trim_before[1]

C13_Witness ==
    /\ IsSome(trim_before)
    /\ max_history_turns = 2
    /\ Cardinality(UserIndices(trim_before[1])) = 2
    /\ Len(history) = MaxTrimLen + 1
    /\ history[2].role = "Assistant"
    /\ history = trim_before[1]

(* C14: for a supervised component whose every run returns an error, the     *)
(* k-th restart sleep lasts min(2^(k-1) * b, M) seconds, where                *)
(* b = max(initial_backoff, 1) and M = max(max_backoff, b); every sleep lies  *)
(* in [b, M] and the sequence of sleeps never decreases.                      *)
ClampedInitial == IF reliability.channel_initial_backoff_secs >= 1
                  THEN reliability.channel_initial_backoff_secs ELSE 1
ClampedMax == IF reliability.channel_max_backoff_secs >= ClampedInitial
              THEN reliability.channel_max_backoff_secs ELSE ClampedInitial

OnlyErrors(c, k) == \A j \in 1..k : outcomes[c][j].res = "Err"

C14_BackoffSequence ==
    \A c \in Components : \A k \in 1..Len(outcomes[c]) :
        OnlyErrors(c, k) =>
            /\ outcomes[c][k].slept
                 = (IF 2^(k - 1) * ClampedInitial <= ClampedMax
                    THEN 2^(k - 1) * ClampedInitial ELSE ClampedMax)
            /\ ClampedInitial <= outcomes[c][k].slept
            /\ outcomes[c][k].slept <= ClampedMax
            /\ k > 1 => outcomes[c][k - 1].slept <= outcomes[c][k].slept

C14_Witness ==
    /\ reliability = [channel_initial_backoff_secs |-> 0, channel_max_backoff_secs |-> 3]
    /\ Len(outcomes["gateway"]) = 3
    /\ OnlyErrors("gateway", 3)
    /\ outcomes["gateway"][1].slept = 1
    /\ outcomes["gateway"][2].slept = 2
    /\ outcomes["gateway"][3].slept = 3

(* C15: when a component's run returns Ok(()), the supervisor marks the       *)
(* component error with reason "component exited unexpectedly" and resets the *)
(* back-off, so that the sleep after this clean exit lasts exactly the        *)
(* initial back-off b, however many failures preceded it.                     *)
C15_CleanExitResetsBackoff ==
    \A c \in Components :
        /\ \A k \in 1..Len(outcomes[c]) :
               outcomes[c][k].res = "Ok" => outcomes[c][k].slept = ClampedInitial
        /\ (sup[c].pc = "sleeping" /\ Last(outcomes[c]).res = "Ok") =>
               /\ health[c].status = "error"
               /\ health[c].last_error = Some("component exited unexpectedly")
               /\ sup[c].backoff = ClampedInitial

C15_Witness ==
    /\ reliability = [channel_initial_backoff_secs |-> 1, channel_max_backoff_secs |-> u64_MAX]
    /\ sup["gateway"].pc = "sleeping"
    /\ Len(outcomes["gateway"]) = 3
    /\ outcomes["gateway"][1] = [res |-> "Err", slept |-> 1]
    /\ outcomes["gateway"][2] = [res |-> "Err", slept |-> 2]
    /\ outcomes["gateway"][3] = [res |-> "Ok", slept |-> 1]

(* C16: each time a component's run ends, with an error or a clean exit, the  *)
(* supervisor sets the health status to error with the failure reason as      *)
(* last_error and increments restart_count by exactly one before sleeping;    *)
(* restart_count always equals the number of completed runs, and the status   *)
(* is set back to ok only when the next run starts.                           *)
C16_CountEqualsRuns ==
    \A c \in Components :
        /\ health[c].restart_count = Len(outcomes[c])
        /\ sup[c].pc = "sleeping" =>
               /\ health[c].status = "error"
               /\ health[c].last_error =
                      Some(IF Last(outcomes[c]).res = "Ok"
                           THEN "component exited unexpectedly" ELSE "boom")

C16_RunEndStep ==
    \A c \in Components :
        /\ (sup[c].pc = "running" /\ sup'[c].pc = "sleeping") =>
               /\ health'[c].restart_count = health[c].restart_count + 1
               /\ health'[c].status = "error"
               /\ Len(outcomes'[c]) = Len(outcomes[c]) + 1
        /\ health'[c].restart_count # health[c].restart_count =>
               (sup[c].pc = "running" /\ sup'[c].pc = "sleeping")
        /\ (sup[c].pc = "sleeping" /\ health'[c].status # "error") =>
               (sup'[c].pc = "running" /\ health'[c].status = "ok")

C16_RestartCounted == [](C16_CountEqualsRuns) /\ [][C16_RunEndStep]_vars

C16_Witness ==
    /\ sup["heartbeat"].pc = "running"
    /\ health["heartbeat"] = [status |-> "ok", last_error |-> None, restart_count |-> 2]
    /\ outcomes["heartbeat"] = <<[res |-> "Err", slept |-> 1], [res |-> "Ok", slept |-> 1]>>

(* C17: a supervised component's failure never stops its supervisor, another *)
(* component's supervisor or the daemon: after every exit and its back-off    *)
(* sleep the component is marked ok and run again, and a supervisor loop ends *)
(* only when its task is aborted at shutdown.                                 *)
C17_EndsOnlyByAbort ==
    /\ \A c \in Components : sup[c].pc = "cancelled" => aborted
    /\ daemon_pc \in {"joining", "done"} => aborted
    /\ \A c \in Components :
           (sup[c].pc = "sleeping" /\ ~aborted) => ENABLED sleep_returns(c)

C17_FailureStep ==
    \A c \in Components :
        /\ outcomes'[c] # outcomes[c] =>
               /\ sup'[c].pc = "sleeping"
               /\ \A d \in Components \ {c} : sup'[d] = sup[d]
               /\ daemon_pc' = daemon_pc
               /\ writer_pc' = writer_pc
        /\ (sup[c].pc = "sleeping" /\ sup'[c].pc # "sleeping") =>
               \/ sup'[c].pc = "running" /\ health'[c].status = "ok"
               \/ sup'[c].pc = "cancelled" /\ aborted

C17_FailureNeverStopsTheDaemon == [](C17_EndsOnlyByAbort) /\ [][C17_FailureStep]_vars

C17_Witness ==
    /\ daemon_pc = "ctrl_c"
    /\ Len(outcomes["gateway"]) = 2
    /\ outcomes["gateway"][1].res = "Err"
    /\ outcomes["gateway"][2].res = "Err"
    /\ sup["gateway"].pc = "running"
    /\ health["gateway"].status = "ok"
    /\ sup["heartbeat"].pc = "running"
    /\ Len(outcomes["heartbeat"]) = 0

(* C18: on interrupt the daemon marks component `daemon` as error with       *)
(* reason "shutdown requested", aborts every spawned task, waits for each of  *)
(* them to finish, and only then deletes the PID file and the state file;     *)
(* once daemon run returns, neither file exists and no task writes the state  *)
(* file again.                                                                *)
C18_ShutdownOrder ==
    daemon_pc = "done" =>
        /\ health["daemon"] = [status |-> "error", last_error |-> Some("shutdown requested"),
                               restart_count |-> 0]
        /\ \A c \in Components : sup[c].pc = "cancelled"
        /\ writer_pc = "cancelled"

C18_NoFilesAfterReturn ==
    daemon_pc = "done" => (pid_file = None /\ state_file = "absent")

C18_ShutdownRemovesFiles == C18_ShutdownOrder /\ C18_NoFilesAfterReturn

(* C19: the state writer replaces daemon_state.json atomically: a reader of  *)
(* the file (doctor, status) observes the previous complete snapshot or the   *)
(* new complete snapshot, never an empty or partially written file.           *)
C19_ReaderSeesCompleteSnapshot == doctor_result # "parse error"

(* C20: is_daemon_running returns a PID only when daemon.pid exists, its     *)
(* trimmed content parses as a PID and the signal-0 probe of that PID         *)
(* succeeds; when the probe fails it deletes the PID file and returns None;   *)
(* when the file is missing or unparsable it returns None.                    *)
RECURSIVE DecimalValue(_)
DecimalValue(digits) ==
    IF digits = <<>> THEN 0
    ELSE DigitValue(digits[Len(digits)]) + 10 * DecimalValue(SubSeq(digits, 1, Len(digits) - 1))

(* content is whitespace, an optional '+', the decimal digits of v, whitespace *)
IsPidText(content, v) ==
    \E a \in 1..Len(content) : \E b \in a..Len(content) :
        /\ \A i \in 1..(a - 1) : content[i] \in Whitespace
        /\ \A i \in (b + 1)..Len(content) : content[i] \in Whitespace
        /\ LET body == SubSeq(content, a, b)
               digits == IF body[1] = "+" THEN Tail(body) ELSE body
           IN /\ digits # <<>>
              /\ \A i \in 1..Len(digits) : digits[i] \in Digits
              /\ DecimalValue(digits) = v

PidsIn(file) == {v \in 0..u32_MAX : IsSome(file) /\ IsPidText(file[1], v)}

C20_CallStep ==
    (is_running'.called /\ ~is_running.called) =>
        /\ IsSome(is_running'.value) =>
               /\ PidsIn(pid_file) = {is_running'.value[1]}
               /\ is_running'.value[1] \in kill_ok
               /\ pid_file' = pid_file
        /\ (PidsIn(pid_file) # {} /\ PidsIn(pid_file) \cap kill_ok = {}) =>
               /\ is_running'.value = None
               /\ pid_file' = None
        /\ PidsIn(pid_file) = {} =>
               /\ is_running'.value = None
               /\ pid_file' = pid_file

C20_IsDaemonRunning == [][C20_CallStep]_vars

----------------------------------------------------------------------------
(* Properties of stop_daemon *)

Count(seq, x) == Cardinality({i \in 1..Len(seq) : seq[i] = x})
StopReturned == stop.pc \in {"ok", "err"}

(* The call found a live daemon: one SIGTERM, sent first, and at most      *)
(* PollCount polls                                                          *)
StopSendsOneSigterm ==
    stop.running /\ stop.pc \in {"poll", "ok", "err"}
        => /\ stop.signals # <<>>
           /\ stop.signals[1] = "SIGTERM"
           /\ Count(stop.signals, "SIGTERM") = 1
           /\ stop.polls <= PollCount

(* SIGKILL only after every poll found the process, and at most once *)
StopKillsOnlyOnTimeout ==
    /\ Count(stop.signals, "SIGKILL") > 0
           => stop.polls = PollCount /\ stop.signals = <<"SIGTERM", "SIGKILL">>
    /\ stop.pc = "ok" /\ stop.polls < PollCount => Count(stop.signals, "SIGKILL") = 0

(* Ok after a signal: the PID file is gone *)
StopRemovesPidFile ==
    stop.pc = "ok" /\ stop.signals # <<>> => pid_file = None

(* No live daemon: no signal, Ok *)
StopNoopWhenNotRunning ==
    ~stop.running /\ StopReturned => stop.pc = "ok" /\ stop.signals = <<>>

----------------------------------------------------------------------------
(* Properties of the cron job table *)

StoredRow(table, id) == table[CHOOSE i \in 1..Len(table) : table[i].id = id]

(* What C22 says of the row of `job` after the call *)
Rescheduled(job, success) ==
    LET row == StoredRow(cron_jobs', job.id)
    IN /\ row.last_status = Some(IF success THEN "ok" ELSE "error")
       /\ IsSome(row.last_run)
       /\ parse_rfc3339(row.last_run[1]) = utc_now
       /\ parse_rfc3339(row.next_run) > utc_now
       /\ \A t \in 0..utc_now : ~text_le(row.next_run, to_rfc3339(t))

(* C22: for every persisted job, reschedule_after_run(job, success, output) *)
(* sets last_status to "ok" or "error" by success, last_run to the current  *)
(* time and next_run to a firing time strictly later than the current time, *)
(* so that due_jobs does not return the job for the same instant again.     *)
C22_RescheduleAfterRun ==
    [][\A job \in ListedJobs, success \in BOOLEAN :
          reschedule_after_run(job, success, "out") => Rescheduled(job, success)]_vars

(* The row add_job has just stored: its next_run is a firing time of the   *)
(* expression, later than the time of the add, with no firing time between, *)
(* and no instant up to the time of the add makes the job due               *)
AddedRowIsFirstFiring(expression) ==
    LET row == StoredRow(cron_jobs', cron_call'.id)
        next_run == parse_rfc3339(row.next_run)
        fields == Schedule_from_str(normalize_expression(expression)[1])[1]
    IN /\ next_run > utc_now
       /\ next_run % 2 = 0
       /\ fires(fields, next_run \div 2)
       /\ \A sec \in 0..(next_run \div 2) :
             2 * sec > utc_now /\ fires(fields, sec) => 2 * sec = next_run
       /\ cron_call'.jobs[1].next_run = next_run
       /\ \A t \in 0..utc_now : ~text_le(row.next_run, to_rfc3339(t))

(* What due_jobs(t) returned: the jobs whose next_run is at or before t *)
DueJobsAreThoseAtOrBefore ==
    cron_call.op = "due" =>
        \A i \in 1..Len(cron_jobs) :
            (\E k \in 1..Len(cron_call.jobs) : cron_call.jobs[k] = CronJob(cron_jobs[i]))
                <=> parse_rfc3339(cron_jobs[i].next_run) <= cron_call.at

(* C23: add_job stores as next_run the first firing time strictly later    *)
(* than the time of the add; the job is returned by due_jobs(t) for no t up *)
(* to its creation time and for every t at or after its next_run, as long   *)
(* as it is neither rescheduled nor removed.                                *)
C23_AddedJobDueFromNextRun ==
    /\ [][\A expression \in CronExpressions :
             cron_call'.op = "add" /\ cron_call'.ok /\ add_job(expression, "echo")
                 => AddedRowIsFirstFiring(expression)]_vars
    /\ [](DueJobsAreThoseAtOrBefore)

(* due_jobs, asked about an instant with a fraction, returned a job that   *)
(* was added and not rescheduled                                            *)
C23_Witness ==
    /\ cron_call.op = "due"
    /\ cron_call.at % 2 = 1
    /\ Len(cron_call.jobs) = 1
    /\ cron_call.jobs[1].last_run = None
    /\ cron_call.jobs[1].next_run <= cron_call.at

(* add_job, any number of list_jobs, then remove_job of the id returned:   *)
(* the table is the one add_job found                                       *)
AddThenRemoveRestores ==
    cron_call.added # 0 /\ remove_job(cron_call.added)
        => cron_call'.ok /\ cron_jobs' = cron_call.before

(* list_jobs between the two: the new job is there once *)
ListedOnceAfterAdd ==
    cron_call.op = "list" /\ cron_call.added # 0
        => Cardinality({k \in 1..Len(cron_call.jobs) :
                            cron_call.jobs[k].id = cron_call.added}) = 1

(* list_jobs: every row once, in ascending order of next_run *)
ListedAscending ==
    cron_call.op = "list"
        => /\ Len(cron_call.jobs) = Len(cron_jobs)
           /\ \A i \in 1..Len(cron_jobs) :
                 \E k \in 1..Len(cron_call.jobs) : cron_call.jobs[k] = CronJob(cron_jobs[i])
           /\ \A i, j \in 1..Len(cron_call.jobs) :
                 i < j => cron_call.jobs[i].next_run <= cron_call.jobs[j].next_run

(* C24: whatever the table held, add_job followed by remove_job of the     *)
(* returned id leaves exactly the rows of before the add; between the two   *)
(* list_jobs contains the new job once; list_jobs always returns the jobs   *)
(* in ascending order of next_run.                                          *)
C24_AddListRemoveRoundTrip ==
    /\ [][AddThenRemoveRestores]_vars
    /\ [](ListedOnceAfterAdd)
    /\ [](ListedAscending)

(* The last job added was removed again from a table that held, and still *)
(* holds, an every-minute job added before it                               *)
C24_Witness ==
    /\ cron_call.op = "remove"
    /\ cron_call.ok
    /\ cron_call.id = MaxJobs
    /\ Len(cron_jobs) = 1
    /\ cron_jobs[1].expression = EveryMinute

----------------------------------------------------------------------------
(* Properties of normalize_expression *)

(* The fields of a text, counted and cut without the operators of the model *)
FieldStarts(text) ==
    {i \in 1..Len(text) : text[i] \notin Whitespace /\ (i = 1 \/ text[i - 1] \in Whitespace)}
FieldCount(text) == Cardinality(FieldStarts(text))
Inked(text) == {i \in 1..Len(text) : text[i] \notin Whitespace}
Stripped(text) ==
    IF Inked(text) = {} THEN <<>>
    ELSE SubSeq(text, CHOOSE i \in Inked(text) : \A j \in Inked(text) : i <= j,
                      CHOOSE i \in Inked(text) : \A j \in Inked(text) : i >= j)

(* add_job with a text of a rejected field count returns the error of      *)
(* normalize_expression and stores nothing                                  *)
AddJobReturnsTheRejection ==
    [][add_job(normalized.expression, "echo")
          /\ FieldCount(normalized.expression) \notin {5, 6, 7}
       => ~cron_call'.ok /\ cron_call'.error = "field count" /\ cron_jobs' = cron_jobs]_vars

(* C25, as stated: a 5-field expression E becomes "0 " followed by E, a 6- *)
(* or 7-field expression is returned verbatim, every other field count is   *)
(* an error, which add_job returns.                                         *)
C25_Normalization ==
    /\ [](normalized.called =>
            LET E == normalized.expression
            IN normalized.value = IF FieldCount(E) = 5 THEN Some(<<"0", " ">> \o E)
                                  ELSE IF FieldCount(E) \in {6, 7} THEN Some(E)
                                  ELSE None)
    /\ AddJobReturnsTheRejection

(* C25, amended: a 5-field expression E becomes "0 " followed by E without *)
(* its leading and trailing whitespace, a 6- or 7-field expression is       *)
(* returned without its leading and trailing whitespace, every other field  *)
(* count is an error, which add_job returns.                                *)
C25_NormalizationTrims ==
    /\ [](normalized.called =>
            LET E == normalized.expression
            IN normalized.value = IF FieldCount(E) = 5 THEN Some(<<"0", " ">> \o Stripped(E))
                                  ELSE IF FieldCount(E) \in {6, 7} THEN Some(Stripped(E))
                                  ELSE None)
    /\ AddJobReturnsTheRejection

(* Five fields between a leading and a trailing space were normalized *)
C25_Witness ==
    /\ normalized.called
    /\ FieldCount(normalized.expression) = 5
    /\ normalized.expression[1] = " "
    /\ Last(normalized.expression) = " "
    /\ IsSome(normalized.value)

----------------------------------------------------------------------------
(* Properties of the OpenAI-compatible provider *)

(* chat_with_tools returned after the server answered with a parsed body *)
ToolsCallParsed ==
    exchange.method = "chat_with_tools" /\ exchange.api_key /\ exchange.status = "200"

FirstMessage == exchange.choices[1]
CarriesToolCalls ==
    exchange.choices # <<>> /\ FirstMessage.tool_calls # None /\ FirstMessage.tool_calls[1] # <<>>

(* ToolUse with the calls of the first message, in their order, and its text *)
ReturnsTheToolCalls ==
    /\ exchange.result.kind = "ToolUse"
    /\ exchange.result.text = FirstMessage.content
    /\ Len(exchange.result.tool_calls) = Len(FirstMessage.tool_calls[1])
    /\ \A i \in 1..Len(exchange.result.tool_calls) :
          /\ exchange.result.tool_calls[i].id = FirstMessage.tool_calls[1][i].id
          /\ exchange.result.tool_calls[i].name = FirstMessage.tool_calls[1][i].function.name
          /\ exchange.result.tool_calls[i].arguments
                 = FirstMessage.tool_calls[1][i].function.arguments

ToolUseExactlyWithToolCalls ==
    ToolsCallParsed =>
        /\ exchange.result.kind = "ToolUse" <=> CarriesToolCalls
        /\ CarriesToolCalls => ReturnsTheToolCalls
        /\ exchange.choices = <<>> => exchange.result.kind = "Err"

(* C26, as stated: ToolUse{tool_calls, text = message.content} exactly when *)
(* the first choice's message has a non-empty tool_calls list, with the     *)
(* calls' order, ids, names and arguments; Text(message.content) in every   *)
(* other case; an error when there is no choice.                            *)
C26_ResponseParsing ==
    /\ ToolUseExactlyWithToolCalls
    /\ ToolsCallParsed /\ exchange.choices # <<>> /\ ~CarriesToolCalls
          => exchange.result.kind = "Text" /\ exchange.result.text = FirstMessage.content

(* C26, amended: as stated, but without tool calls the call returns        *)
(* Text(content) only when the message has a content, and an error when     *)
(* the content is absent.                                                   *)
C26_ResponseParsingWithContent ==
    /\ ToolUseExactlyWithToolCalls
    /\ ToolsCallParsed /\ exchange.choices # <<>> /\ ~CarriesToolCalls
          => IF IsSome(FirstMessage.content)
             THEN exchange.result = Text(FirstMessage.content[1])
             ELSE exchange.result.kind = "Err"

(* Two tool calls and no content came back as ToolUse *)
C26_Witness ==
    /\ ToolsCallParsed
    /\ Len(exchange.choices) = 2
    /\ FirstMessage.content = None
    /\ exchange.result.kind = "ToolUse"
    /\ Len(exchange.result.tool_calls) = 2
    /\ exchange.result.tool_calls[1].id # exchange.result.tool_calls[2].id

SystemCallReturned == exchange.method = "chat_with_system"

(* chat_with_system after a 404: the chat request, one Responses request,  *)
(* and the text of the Responses answer or an error                         *)
FallsBackOn404 ==
    SystemCallReturned /\ exchange.api_key /\ exchange.status = "404"
        => /\ exchange.requests = <<"chat", "responses">>
           /\ IF exchange.responses_status = "200" /\ exchange.responses_text # None
              THEN exchange.result = OkString(exchange.responses_text[1])
              ELSE exchange.result.kind = "Err"

(* chat_with_system after any other answer: the chat request alone *)
NoFallbackOtherwise ==
    SystemCallReturned /\ exchange.api_key /\ exchange.status # "404"
        => /\ exchange.requests = <<"chat">>
           /\ exchange.status # "200" => exchange.result.kind = "Err"

(* chat_with_tools: no Responses request *)
ToolsNeverFallBack ==
    exchange.method = "chat_with_tools"
        => /\ \A i \in 1..Len(exchange.requests) : exchange.requests[i] # "responses"
           /\ exchange.status # "200" => exchange.result.kind = "Err"

WithoutTrailingSlashes(url) ==
    LET kept == {i \in 1..Len(url) : url[i] # "/"}
    IN IF kept = {} THEN <<>>
       ELSE SubSeq(url, 1, CHOOSE i \in kept : \A j \in kept : i >= j)

(* C28, as stated: the endpoint is the configured base URL, trailing       *)
(* slashes removed, verbatim when it ends with chat/completions, and        *)
(* followed by /chat/completions in every other case.                       *)
C28_EndpointResolution ==
    endpoint.url # None =>
        LET base == WithoutTrailingSlashes(endpoint.configured)
        IN endpoint.url[1] = IF base # <<>> /\ base[Len(base)] = ChatCompletions
                             THEN base
                             ELSE base \o <<"/", ChatCompletions>>

(* C28, amended: the endpoint is the configured base URL, trailing slashes *)
(* removed, verbatim when chat/completions occurs anywhere in it, and       *)
(* followed by /chat/completions in every other case.                       *)
C28_EndpointResolutionContains ==
    endpoint.url # None =>
        LET base == WithoutTrailingSlashes(endpoint.configured)
        IN endpoint.url[1] = IF \E i \in 1..Len(base) : base[i] = ChatCompletions
                             THEN base
                             ELSE base \o <<"/", ChatCompletions>>

(* A URL with chat/completions before a query, and slashes at its end *)
C28_Witness ==
    /\ endpoint.url # None
    /\ Len(endpoint.configured) = MaxUrlLen
    /\ endpoint.configured[1] = "https://api.example.com"
    /\ endpoint.configured[3] = ChatCompletions
    /\ endpoint.configured[4] = "?beta"
    /\ endpoint.configured[5] = "/"
    /\ endpoint.url[1] = SubSeq(endpoint.configured, 1, 4)

----------------------------------------------------------------------------
(* Properties of the observer events *)

(* The event a processed call should have given the observer *)
EventOfLastResult ==
    [tool |-> PendingCall.name,
     success |-> ~StartsWith(Last(tool_results').content[1], "Error:")]

(* tool.execute was called in this step *)
ToolExecuted == executions' # executions

(* C29, as stated: execute_tool_calls emits one ToolCall event for each    *)
(* tool call it processes, with success true exactly when the content of    *)
(* the Tool message of that call does not start with "Error:".              *)
C29_EventPerToolCall ==
    [][CallProcessed => events' = Append(events, EventOfLastResult)]_vars

(* C29, amended: execute_tool_calls emits one ToolCall event for each tool *)
(* call it executes, with success true exactly when the content of the Tool *)
(* message of that call does not start with "Error:"; a call it answers     *)
(* without executing it (unknown tool, rate limit, arguments that do not    *)
(* parse) gives the observer no event.                                      *)
C29_EventPerExecutedCall ==
    [][CallProcessed =>
          IF ToolExecuted THEN events' = Append(events, EventOfLastResult)
          ELSE events' = events]_vars

(* An unknown tool answered without an event, then a failed execution with *)
(* an event that says so                                                    *)
C29_Witness ==
    /\ loop_pc = "tools"
    /\ Len(tool_results) = 2
    /\ tool_results[1] = Tool("call_3", UnknownToolText("nonexistent_tool"))
    /\ StartsWith(tool_results[2].content[1], "Error:")
    /\ events = <<[tool |-> "echo", success |-> FALSE]>>

(* C30: tool-call arguments received as a JSON string are handed over     *)
(* unchanged, arguments received as a JSON object are handed over as a     *)
(* string that parses back to a value equal to the object, and in both     *)
(* cases the conversion returns Ok.                                         *)
C30_ArgumentsStringOrObject ==
    wire_arguments.called =>
        /\ wire_arguments.value.t \in {"string", "object"} =>
               IsSome(wire_arguments.arguments)
        /\ wire_arguments.value.t = "string" =>
               wire_arguments.arguments = Some(wire_arguments.value.s)
        /\ wire_arguments.value.t = "object" =>
               /\ IsSome(wire_arguments.arguments)
               /\ from_str(wire_arguments.arguments[1]) = Some(wire_arguments.value)

(* an object that holds an object whose string needs escaping was handed   *)
(* over                                                                     *)
C30_Witness ==
    /\ wire_arguments.called
    /\ wire_arguments.value =
           JObject([x \in {JsonKeys[1]} |->
                      JObject([y \in {JsonKeys[2]} |-> JString(<<"a", "\"">>)])])
    /\ wire_arguments.arguments =
           Some(<<"{", "\"", "a", "\"", ":", "{", "\"", "b", "\"", ":",
                  "\"", "a", "\\", "\"", "\"", "}", "}">>)

(* C31: serializing a chat message and deserializing the result yields the *)
(* same message for all four variants; the written object carries the      *)
(* variant as its "role" field and has no key for an absent optional field. *)
WrittenObject == from_str(chat_json.json[1])

RoleIsDiscriminator ==
    /\ IsSome(WrittenObject)
    /\ WrittenObject[1].t = "object"
    /\ <<"role">> \in DOMAIN WrittenObject[1].fields
    /\ WrittenObject[1].fields[<<"role">>] = JString(<<lowercase(chat_json.message.role)>>)

AbsentFieldsOmitted ==
    chat_json.message.role = "Assistant" =>
        /\ chat_json.message.content = None =>
               <<"content">> \notin DOMAIN WrittenObject[1].fields
        /\ chat_json.message.tool_calls = None =>
               <<"tool_calls">> \notin DOMAIN WrittenObject[1].fields

C31_ChatMessageRoundTrip ==
    /\ IsSome(chat_json.json) => RoleIsDiscriminator /\ AbsentFieldsOmitted
    /\ chat_json.read => chat_json.parsed = Some(chat_json.message)

(* an Assistant message without content, with two tool calls whose         *)
(* arguments need escaping, was written and read back                      *)
C31_Witness ==
    /\ chat_json.read
    /\ chat_json.message.role = "Assistant"
    /\ chat_json.message.content = None
    /\ IsSome(chat_json.message.tool_calls)
    /\ Len(chat_json.message.tool_calls[1]) = 2
    /\ chat_json.message.tool_calls[1][1].arguments # <<"{", "}">>
    /\ IsSome(chat_json.parsed)
    /\ chat_json.parsed[1].tool_calls = chat_json.message.tool_calls

(* C32: when chat_with_tools returns an error, at any iteration or at the  *)
(* forced final call, run_tool_loop returns that error at once: the call    *)
(* leaves history, the tool results and the executions as they are, and     *)
(* until a next turn starts there is no provider call, no tool execution    *)
(* and no change of history (nothing is rolled back, nothing is appended).  *)
ProviderFailed ==
    /\ provider_log' # provider_log
    /\ provider_log' # <<>>
    /\ Last(provider_log').kind = "Err"

TurnFailed == loop_pc = "returned" /\ result.kind = "Err"

C32_ProviderErrorEndsTurn ==
    [][/\ ProviderFailed =>
              /\ loop_pc' = "returned"
              /\ result'.kind = "Err"
              /\ history' = history
              /\ tool_results' = tool_results
              /\ executions' = executions
       /\ TurnFailed /\ loop_pc' = "returned" =>
              /\ provider_log' = provider_log
              /\ executions' = executions
              /\ history' = history
              /\ result' = result]_vars

(* the forced final call failed after one pass with an executed tool call: *)
(* the history ends with the User message of the final prompt, after the    *)
(* Assistant and Tool messages of the pass                                  *)
C32_Witness ==
    /\ TurnFailed
    /\ Len(provider_log) = 2
    /\ ~Last(provider_log).tools_enabled
    /\ Len(history) >= 4
    /\ Last(history) = User(FinalPrompt)
    /\ history[Len(history) - 1].role = "Tool"
    /\ history[Len(history) - 2].role = "Assistant"
    /\ executions # <<>>

(* C33: the history mutex is never held while a provider request or a tool *)
(* execution of a turn is in flight, and the key-event loop never waits for *)
(* the mutex while a turn is between its first provider call and its        *)
(* return.                                                                  *)
TurnInFlight == loop_pc \in {"chat", "tools", "final"}
KeyLoopWaitsForLock == key_pc = "clear" /\ lock # "free"

C33_LockNotHeldAcrossProviderCall ==
    /\ TurnInFlight => lock = "free"
    /\ TurnInFlight => ~KeyLoopWaitsForLock

(* C37: in the TUI at most one agent turn is in flight at any time.  Enter *)
(* while status is Waiting starts no turn and leaves the input buffer as it *)
(* is; a turn starts only from Idle with no task and no unreceived event;    *)
(* every started turn sends exactly one AgentResponse or AgentError event,   *)
(* and the receipt of the event takes the status from Waiting to Idle.       *)
OneTurnInFlight ==
    /\ Len(agent_rx) <= 1
    /\ task_pc # "none" => (status = "Waiting" /\ agent_rx = <<>>)
    /\ agent_rx # <<>> => status = "Waiting"

EnterIgnoredWhileWaiting ==
    status = "Waiting" =>
        enter_arm(status, input) = [outcome |-> "ignored", status |-> "Waiting", input |-> input]

TurnStartedStep ==
    (task_pc' = "spawned" /\ task_pc # "spawned") =>
        /\ status = "Idle"
        /\ task_pc = "none"
        /\ agent_rx = <<>>
        /\ status' = "Waiting"

EventSentStep ==
    /\ (task_pc = "running" /\ task_pc' # "running") =>
           /\ task_pc' = "none"
           /\ \E ev \in {"AgentResponse", "AgentError"} : agent_rx' = Append(agent_rx, ev)
    /\ Len(agent_rx') > Len(agent_rx) => (task_pc = "running" /\ task_pc' = "none")

EventReceivedStep ==
    /\ Len(agent_rx') < Len(agent_rx) => (status = "Waiting" /\ status' = "Idle")
    /\ status' # status =>
           \/ status' = "Waiting" /\ task_pc' = "spawned"
           \/ status' = "Idle" /\ agent_rx' = Tail(agent_rx)

C37_OneTurnInFlight ==
    /\ [](OneTurnInFlight /\ EnterIgnoredWhileWaiting)
    /\ [][TurnStartedStep /\ EventSentStep /\ EventReceivedStep]_vars
    /\ (task_pc = "spawned") ~> (agent_rx # <<>>)
    /\ (agent_rx # <<>>) ~> (status = "Idle")

(* the second turn is running and a key was typed while the status is      *)
(* Waiting: Enter would leave it in the buffer                              *)
C37_Witness ==
    /\ mode = "tui"
    /\ turns = 2
    /\ status = "Waiting"
    /\ task_pc = "running"
    /\ loop_pc = "chat"
    /\ input = <<"m">>
    /\ enter_arm(status, input).outcome = "ignored"

(* C34: the heartbeat worker ticks with a period of max(interval_minutes,  *)
(* 5) minutes, the first tick at its start; at each tick it runs one         *)
(* one-shot agent turn with a fresh history per collected task, in list      *)
(* order; a failed turn is recorded as heartbeat error and the worker goes   *)
(* on with the remaining tasks and the later ticks; a failed collect_tasks   *)
(* ends the worker, and the supervisor counts a restart and sleeps before    *)
(* it runs the worker again.                                                 *)
TasksOf(ran) == [i \in 1..Len(ran) |-> ran[i].task]

HeartbeatPeriod ==
    worker.pc # "none" =>
        /\ worker.period = IF worker.interval_minutes > 5 THEN worker.interval_minutes ELSE 5
        /\ worker.deadline <= worker.clock + worker.period

TasksInListOrder ==
    /\ worker.pc = "tasks" =>
           /\ worker.pending # <<>>
           /\ TasksOf(worker.ran) \o worker.pending = worker.collected
    /\ (worker.pc = "tick" /\ worker.ticks > 0) => TasksOf(worker.ran) = worker.collected
    /\ \A i \in 1..Len(worker.ran) :
           worker.ran[i].history =
               <<System(SystemPrompt), User(<<"[Heartbeat Task] ", worker.ran[i].task>>)>>

TickStep ==
    /\ (worker.pc = "none" /\ worker'.pc # "none") =>
           (worker'.pc = "tick" /\ worker'.deadline = worker.clock)
    /\ worker'.ticks = worker.ticks + 1 =>
           /\ worker.clock >= worker.deadline
           /\ worker'.deadline = worker.deadline + worker.period
           /\ worker'.pc = "collect"
    /\ (worker'.deadline # worker.deadline /\ worker.pc # "none") =>
           worker'.ticks = worker.ticks + 1

TaskStep ==
    Len(worker'.ran) = Len(worker.ran) + 1 =>
        /\ worker'.pending = Tail(worker.pending)
        /\ worker'.pc = IF worker'.pending = <<>> THEN "tick" ELSE "tasks"
        /\ sup' = sup
        /\ health'["heartbeat"].status = IF Last(worker'.ran).ok THEN "ok" ELSE "error"
        /\ health'["heartbeat"].restart_count = health["heartbeat"].restart_count

WorkerEndsStep ==
    (worker.pc # "none" /\ worker'.pc = "none") =>
        /\ worker.pc = "collect"
        /\ sup["heartbeat"].pc = "running"
        /\ sup'["heartbeat"].pc = "sleeping"
        /\ health'["heartbeat"].status = "error"
        /\ health'["heartbeat"].restart_count = health["heartbeat"].restart_count + 1

C34_HeartbeatWorker ==
    /\ [](HeartbeatPeriod /\ TasksInListOrder)
    /\ [][TickStep /\ TaskStep /\ WorkerEndsStep]_vars

(* a worker that the supervisor started again after a failed collect_tasks  *)
(* has run both tasks of its second tick, the first of them failed           *)
C34_Witness ==
    /\ Len(outcomes["heartbeat"]) = 1
    /\ worker.pc = "tick"
    /\ worker.ticks = 2
    /\ worker.collected = <<"t1", "t2">>
    /\ Len(worker.ran) = 2
    /\ ~worker.ran[1].ok
    /\ worker.ran[2].ok
    /\ health["heartbeat"].status = "ok"
    /\ health["heartbeat"].restart_count = 1

(* C35: every cron operation that returns an error leaves the job table    *)
(* unchanged: add_job fails, and inserts no row, for a wrong field count,    *)
(* an expression that does not parse and an expression with no future        *)
(* firing time; remove_job fails exactly when no row has the id, and         *)
(* reports that the job was not found; a reschedule_after_run that cannot    *)
(* compute a next firing time updates no column of any row.                  *)
CronCallReturned == cron_call' # cron_call
HasRow(id) == \E i \in 1..Len(cron_jobs) : cron_jobs[i].id = id

FailedCallStep ==
    (CronCallReturned /\ ~cron_call'.ok) =>
        /\ cron_jobs' = cron_jobs
        /\ cron_call'.op \in {"add", "remove", "reschedule"}
        /\ cron_call'.op = "add" =>
               cron_call'.error \in {"field count", "invalid expression", "no future time"}
        /\ cron_call'.op = "remove" => cron_call'.error = "not found"
        /\ cron_call'.op = "reschedule" => cron_call'.error = "no future time"

RemoveUnknownStep ==
    (CronCallReturned /\ cron_call'.op = "remove") =>
        (cron_call'.ok <=> HasRow(cron_call'.id))

RowInsertedStep ==
    Len(cron_jobs') > Len(cron_jobs) =>
        /\ cron_call'.op = "add"
        /\ cron_call'.ok
        /\ IsSome(next_run_for(Last(cron_jobs').expression, utc_now))

C35_CronErrorsLeaveTable == [][FailedCallStep /\ RemoveUnknownStep /\ RowInsertedStep]_vars

(* a reschedule failed on the one job of the table, whose schedule has     *)
(* ended: the row is as add_job wrote it                                     *)
C35_Witness ==
    /\ cron_call.op = "reschedule"
    /\ ~cron_call.ok
    /\ Len(cron_jobs) = 1
    /\ cron_jobs[1].expression = In1970
    /\ cron_jobs[1].last_run = None
    /\ cron_jobs[1].last_status = None

(* C36: a call to a registered tool whose arguments do not parse as JSON      *)
(* takes one unit of the hourly action budget although no tool is executed:   *)
(* the call is counted by record_action before its arguments are parsed.      *)
(* Once max_actions_per_hour counted calls of the hour were not executed,     *)
(* every further call to a registered tool in that hour is rate-limited.      *)
CountedNotExecuted ==
    Len(RecentActions(actions, now)) - Len(RecentActions(executions, now))

UnparsableCallStep ==
    (CallProcessed
       /\ find_tool(PendingCall.name)
       /\ ~ParsesAsJson(PendingCall.arguments)
       /\ record_action_allowed(actions, now, max_actions_per_hour)) =>
        /\ tool_results' = Append(tool_results, Tool(PendingCall.id, ParseErrorText))
        /\ actions' = Append(RecentActions(actions, now), now)
        /\ executions' = executions
        /\ events' = events
        /\ ActionsLeft(actions', now', max_actions_per_hour)
             = ActionsLeft(actions, now, max_actions_per_hour) - 1

CountedWithoutRunStep ==
    (CallProcessed
       /\ actions' = Append(RecentActions(actions, now), now)
       /\ executions' = executions) =>
        /\ find_tool(PendingCall.name)
        /\ ~ParsesAsJson(PendingCall.arguments)

BudgetSpentStep ==
    (CallProcessed
       /\ find_tool(PendingCall.name)
       /\ CountedNotExecuted >= max_actions_per_hour) =>
        /\ tool_results' = Append(tool_results, Tool(PendingCall.id, RateLimitText))
        /\ executions' = executions

C36_UnparsableCallSpendsBudget ==
    [][UnparsableCallStep /\ CountedWithoutRunStep /\ BudgetSpentStep]_vars

C36_Witness ==
    /\ max_actions_per_hour = MaxActions
    /\ loop_pc = "tools"
    /\ executions = <<>>
    /\ CountedNotExecuted = max_actions_per_hour
    /\ tool_results = <<Tool("call_2", ParseErrorText), Tool("call_1", RateLimitText)>>

(* C38: while a daemon process runs, daemon.pid exists and holds the PID of   *)
(* that process, whatever other starts are attempted meanwhile, in the        *)
(* background or with --foreground: no step replaces or removes the PID file  *)
(* of a daemon that is running and stays running.                             *)
Running(p) == instances[p] = "running"

PidFileNamesRunningDaemon ==
    \A p \in InstancePids : Running(p) => pid_file = Some(PidText(p))

PidFileKeptStep ==
    \A p \in InstancePids :
        (Running(p) /\ instances'[p] = "running" /\ pid_file = Some(PidText(p))) =>
            pid_file' = pid_file

C38_PidFileOfLiveDaemon == [](PidFileNamesRunningDaemon) /\ [][PidFileKeptStep]_vars

(* C39: a job removed after the scheduler read it as due and before its       *)
(* reschedule_after_run stays removed: that reschedule changes no row,         *)
(* returns Ok, and the id never has a row again; an add, a remove or a         *)
(* reschedule leaves the rows of every other job as they were.                 *)
RowsBut(rows, id) == SelectSeq(rows, LAMBDA row : row.id # id)

StaleRescheduleStep ==
    (scheduler' # scheduler /\ cron_call'.op = "reschedule" /\ ~HasRow(cron_call'.id)) =>
        /\ cron_jobs' = cron_jobs
        /\ cron_call'.ok

RemovedStaysRemovedStep ==
    \A id \in 1..MaxJobs :
        (id <= cron_call.uuids /\ ~HasRow(id)) =>
            ~(\E i \in 1..Len(cron_jobs') : cron_jobs'[i].id = id)

OtherRowsKeptStep ==
    (CronCallReturned /\ cron_call'.op \in {"add", "remove", "reschedule"}) =>
        RowsBut(cron_jobs', cron_call'.id) = RowsBut(cron_jobs, cron_call'.id)

C39_RemovedJobStaysRemoved ==
    [][StaleRescheduleStep /\ RemovedStaysRemovedStep /\ OtherRowsKeptStep]_vars

(* C40: stop_daemon ends with the cleanup of an interrupt-driven shutdown:    *)
(* once stop_daemon has returned Ok for a daemon it found running and the      *)
(* process is gone, neither daemon.pid nor daemon_state.json exists.           *)
StoppedByStopDaemon == stop.pc = "ok" /\ stop.pid = Some(DaemonPid) /\ ~alive

C40_StopCleansLikeInterrupt ==
    StoppedByStopDaemon => (pid_file = None /\ state_file = "absent")

====
